---- MODULE Spec2Model ----
(***************************************************************************)
(* A model of the staged-index file system provider (GitIndexFS), its     *)
(* index watcher (GitIndexWatcher) and its path translator (toLocalPath / *)
(* fromLocalPath).  Strings are sequences of one-character strings, so    *)
(* that node:path, String.trim/split and Uri.fsPath are computed, not     *)
(* assumed.                                                                *)
(***************************************************************************)
EXTENDS Integers, Sequences, FiniteSets, TLC

VARIABLES
    pt,         \* path translator: the call in progress and its results
    worktree,   \* the working tree: the files and directories on disk
    index,      \* the entries of the repositories' index files
    indexMtime, \* per root: the modification time of its index file
    objects,    \* per root: the blobs in its object store
    calls,      \* the stat / readFile / writeFile calls in flight
    written,    \* per local path: the bytes of the latest index update, if any
    subs,       \* GitIndexFS.watch: the closure state of each call
    registry,   \* GitIndexFS._gitIndexWatchers: root -> watcher (0: no entry)
    watchers,   \* the GitIndexWatcher objects constructed so far
    notes,      \* per watcher: index-file notifications the OS has queued
    fanout      \* the events the emitter fired during the latest fan-out

vars == <<pt, worktree, index, indexMtime, objects, calls, written,
          subs, registry, watchers, notes, fanout>>

ptVars == <<pt>>
worldVars == <<worktree, index, indexMtime, objects>>
fsVars == <<calls, written>>
watchVars == <<subs, registry, watchers, notes, fanout>>

----------------------------------------------------------------------------
(* Program constants *)

SCHEME == "icantbelievegit"

PREFIX_DIR == <<"s", "t", "a", "g", "e", "d">>

----------------------------------------------------------------------------
(* Bounds of the model *)

\* the authorities tried: none, and one host
Authorities == {<<>>, <<"h">>}

\* the path segments tried: empty, a name, the dot segments and the marker
SegNames == {<<>>, <<"a">>, <<".">>, <<".", ".">>, PREFIX_DIR}

\* the paths tried have at most this many segments
MaxSegs == 3

\* the number of watch calls made
MaxSubs == 3

\* the index-file notifications queued for one watcher
MaxNotes == 1

\* the length of the byte sequences written
MaxLen == 1

\* the provider calls in flight at once
MaxCalls == 2

\* the index updates made in one run
MaxUpdates == 1

\* the calls of dispose on one handle
MaxDisposals == 2

----------------------------------------------------------------------------
(* Strings *)

Max(S) == CHOOSE x \in S : \A y \in S : y <= x

SLASH == "/"

\* String.prototype.slice(from0, to0) with 0-based, end-exclusive offsets
Slice(s, from0, to0) == SubSeq(s, from0 + 1, to0)

RECURSIVE JoinWith(_, _)
\* Array.prototype.join(sep) on an array of strings
JoinWith(parts, sep) ==
    IF Len(parts) = 0 THEN <<>>
    ELSE IF Len(parts) = 1 THEN parts[1]
    ELSE parts[1] \o sep \o JoinWith(Tail(parts), sep)

RECURSIVE SplitOn(_, _)
\* String.prototype.split(sep) for a one-character separator: always at least
\* one element, an empty string splitting to one empty element
SplitOn(s, sep) ==
    LET hits == {i \in 1..Len(s) : s[i] = sep} IN
    IF hits = {} THEN <<s>>
    ELSE LET i == CHOOSE k \in hits : \A j \in hits : k <= j
         IN <<SubSeq(s, 1, i - 1)>> \o SplitOn(SubSeq(s, i + 1, Len(s)), sep)

\* the elements of a sequence
Members(seq) == {seq[k] : k \in 1..Len(seq)}

\* the sequences over S of length at most n
SeqsUpTo(S, n) == UNION {[1..k -> S] : k \in 0..n}

----------------------------------------------------------------------------
(* node:path (posix) *)

\* the segments of a path between its separators
Segments(path) == SplitOn(path, SLASH)

\* path.dirname: the scan from the end stops at the first separator (not at
\* offset 0) met after a non-separator, i.e. the last separator with a
\* non-separator somewhere after it
dirname(path) ==
    IF Len(path) = 0 THEN <<".">>
    ELSE
      LET hasRoot == path[1] = SLASH
          cands == {i \in 1..(Len(path) - 1) :
                       /\ path[i + 1] = SLASH
                       /\ \E j \in (i + 1)..(Len(path) - 1) : path[j + 1] # SLASH}
          end == IF cands = {} THEN -1 ELSE Max(cands)
      IN IF end = -1 THEN (IF hasRoot THEN <<SLASH>> ELSE <<".">>)
         ELSE IF hasRoot /\ end = 1 THEN <<SLASH, SLASH>>
         ELSE Slice(path, 0, end)

\* path.basename (no suffix): the last run of non-separators
basename(path) ==
    LET nons == {i \in 0..(Len(path) - 1) : path[i + 1] # SLASH}
        end == IF nons = {} THEN -1 ELSE Max(nons) + 1
        seps == {i \in 0..(end - 1) : path[i + 1] = SLASH}
        start == IF seps = {} THEN 0 ELSE Max(seps) + 1
    IN IF end = -1 THEN <<>> ELSE Slice(path, start, end)

RECURSIVE normalizeSegs(_, _, _)
\* normalizeString, segment by segment: empty and "." segments are dropped,
\* ".." removes the segment before it, or is kept when there is none to
\* remove and the path is relative (allowAboveRoot)
normalizeSegs(segs, res, allowAboveRoot) ==
    IF Len(segs) = 0 THEN res
    ELSE
      LET seg == Head(segs)
          rest == Tail(segs)
      IN IF seg = <<>> \/ seg = <<".">> THEN normalizeSegs(rest, res, allowAboveRoot)
         ELSE IF seg = <<".", ".">> THEN
            IF Len(res) > 0 /\ res[Len(res)] # <<".", ".">>
            THEN normalizeSegs(rest, SubSeq(res, 1, Len(res) - 1), allowAboveRoot)
            ELSE IF allowAboveRoot
            THEN normalizeSegs(rest, Append(res, seg), allowAboveRoot)
            ELSE normalizeSegs(rest, res, allowAboveRoot)
         ELSE normalizeSegs(rest, Append(res, seg), allowAboveRoot)

normalizeString(path, allowAboveRoot) ==
    JoinWith(normalizeSegs(SplitOn(path, SLASH), <<>>, allowAboveRoot), <<SLASH>>)

\* path.normalize
normalize(path) ==
    IF Len(path) = 0 THEN <<".">>
    ELSE
      LET isAbsolute == path[1] = SLASH
          trailingSeparator == path[Len(path)] = SLASH
          p == normalizeString(path, ~isAbsolute)
      IN IF Len(p) = 0
         THEN (IF isAbsolute THEN <<SLASH>>
               ELSE IF trailingSeparator THEN <<".", SLASH>> ELSE <<".">>)
         ELSE LET q == IF trailingSeparator THEN p \o <<SLASH>> ELSE p
              IN IF isAbsolute THEN <<SLASH>> \o q ELSE q

\* path.join: the non-empty arguments joined by the separator, then normalized
join(args) ==
    LET nonEmpty == SelectSeq(args, LAMBDA a : Len(a) > 0)
    IN IF Len(nonEmpty) = 0 THEN <<".">>
       ELSE normalize(JoinWith(nonEmpty, <<SLASH>>))

----------------------------------------------------------------------------
(* vscode.Uri *)

\* a call that returns v / a call that throws
Return(v) == [ok |-> TRUE, error |-> "", value |-> v]
Throw(e, dflt) == [ok |-> FALSE, error |-> e, value |-> dflt]

NoUri == [scheme |-> "", authority |-> <<>>, path |-> <<>>, query |-> <<>>, fragment |-> <<>>]

\* Uri's reference resolution: a file path is made absolute
referenceResolution(scheme, path) ==
    IF scheme \in {"https", "http", "file"}
    THEN IF Len(path) = 0 THEN <<SLASH>>
         ELSE IF path[1] # SLASH THEN <<SLASH>> \o path
         ELSE path
    ELSE path

\* Uri's validation: with an authority the path is empty or absolute, without
\* one it does not begin with two separators
validUri(uri) ==
    IF Len(uri.path) = 0 THEN TRUE
    ELSE IF Len(uri.authority) > 0 THEN uri.path[1] = SLASH
    ELSE ~(Len(uri.path) >= 2 /\ uri.path[1] = SLASH /\ uri.path[2] = SLASH)

\* vscode.Uri.from({scheme, authority, path}): throws on an invalid shape
UriFrom(scheme, authority, path) ==
    LET uri == [scheme |-> IF scheme = "" THEN "file" ELSE scheme,
                authority |-> authority,
                path |-> referenceResolution(IF scheme = "" THEN "file" ELSE scheme, path),
                query |-> <<>>, fragment |-> <<>>]
    IN IF validUri(uri) THEN Return(uri) ELSE Throw("UriError", NoUri)

\* Uri.fsPath on a posix host (the tried paths hold no drive letter)
fsPath(uri) ==
    IF Len(uri.authority) > 0 /\ Len(uri.path) > 1 /\ uri.scheme = "file"
    THEN <<SLASH, SLASH>> \o uri.authority \o uri.path
    ELSE uri.path

\* vscode.Uri.file(path): a path that begins with two separators names its
\* authority first
UriFile(path) ==
    IF Len(path) >= 2 /\ path[1] = SLASH /\ path[2] = SLASH
    THEN LET later == {i \in 3..Len(path) : path[i] = SLASH}
         IN IF later = {}
            THEN UriFrom("file", SubSeq(path, 3, Len(path)), <<SLASH>>)
            ELSE LET idx == CHOOSE i \in later : \A j \in later : i <= j
                 IN UriFrom("file", SubSeq(path, 3, idx - 1), SubSeq(path, idx, Len(path)))
    ELSE UriFrom("file", <<>>, path)

----------------------------------------------------------------------------
(* The path translator *)

\* a translator that forgets to take the marker segment out of the path
toLocalPathKeepsMarker(uri) ==
    IF uri.scheme # SCHEME THEN Throw("Error", <<>>)
    ELSE IF uri.query # <<>> THEN Throw("Error", <<>>)
    ELSE IF uri.fragment # <<>> THEN Throw("Error", <<>>)
    ELSE LET made == UriFrom("file", uri.authority, uri.path)
         IN IF made.ok THEN Return(fsPath(made.value)) ELSE Throw(made.error, <<>>)

\* a translator that lets a fragment through
toLocalPathAnyFragment(uri) ==
    IF uri.scheme # SCHEME THEN Throw("Error", <<>>)
    ELSE IF uri.query # <<>> THEN Throw("Error", <<>>)
    ELSE IF basename(dirname(uri.path)) # PREFIX_DIR THEN Throw("Error", <<>>)
    ELSE LET made == UriFrom("file", uri.authority,
                             join(<<dirname(dirname(uri.path)), basename(uri.path)>>))
         IN IF made.ok THEN Return(fsPath(made.value)) ELSE Throw(made.error, <<>>)

toLocalPath(uri) ==
    IF uri.scheme # SCHEME THEN Throw("Error", <<>>)
    ELSE IF uri.query # <<>> THEN Throw("Error", <<>>)
    ELSE IF uri.fragment # <<>> THEN Throw("Error", <<>>)
    ELSE IF basename(dirname(uri.path)) # PREFIX_DIR THEN Throw("Error", <<>>)
    ELSE LET made == UriFrom("file", uri.authority,
                             join(<<dirname(dirname(uri.path)), basename(uri.path)>>))
         IN IF made.ok THEN Return(fsPath(made.value)) ELSE Throw(made.error, <<>>)

\* a translator that forgets the authority
fromLocalPathDropsAuthority(uri) ==
    IF uri.scheme # "file" THEN Throw("Error", NoUri)
    ELSE IF uri.query # <<>> THEN Throw("Error", NoUri)
    ELSE IF uri.fragment # <<>> THEN Throw("Error", NoUri)
    ELSE UriFrom(SCHEME, <<>>,
                 join(<<dirname(uri.path), PREFIX_DIR, basename(uri.path)>>))

fromLocalPath(uri) ==
    IF uri.scheme # "file" THEN Throw("Error", NoUri)
    ELSE IF uri.query # <<>> THEN Throw("Error", NoUri)
    ELSE IF uri.fragment # <<>> THEN Throw("Error", NoUri)
    ELSE UriFrom(SCHEME, uri.authority,
                 join(<<dirname(uri.path), PREFIX_DIR, basename(uri.path)>>))

----------------------------------------------------------------------------
(* The URIs the translator is tried on *)

\* raw paths: an optional leading separator, up to MaxSegs segments, an
\* optional trailing separator
PathStrings ==
    {lead \o JoinWith(segs, <<SLASH>>) \o trail :
        lead \in {<<>>, <<SLASH>>}, trail \in {<<>>, <<SLASH>>},
        segs \in SeqsUpTo(SegNames, MaxSegs)}

\* the Uri values the host can construct for a scheme
UrisOf(scheme) ==
    {r.value : r \in {res \in {UriFrom(scheme, a, p) : a \in Authorities, p \in PathStrings} : res.ok}}

LocalUris == UrisOf("file")

VirtualUris == UrisOf(SCHEME)

NoUriResult == Throw("none", NoUri)
NoPathResult == Throw("none", <<>>)

PtIdle == [phase |-> "idle", u |-> NoUri, v |-> NoUriResult,
           local |-> NoPathResult, back |-> NoUriResult]

\* the commands' use: fromLocalPath(u) of a local URI
PtFromLocal ==
    /\ pt.phase = "idle"
    /\ \E u \in LocalUris :
          pt' = [PtIdle EXCEPT !.phase = "fromLocal", !.u = u, !.v = fromLocalPath(u)]
    /\ UNCHANGED <<worldVars, fsVars, watchVars>>

\* the provider's use of the URI the command made: toLocalPath(fromLocalPath(u))
PtThenToLocal ==
    /\ pt.phase = "fromLocal"
    /\ pt.v.ok
    /\ pt' = [pt EXCEPT !.phase = "roundLocal", !.local = toLocalPath(pt.v.value)]
    /\ UNCHANGED <<worldVars, fsVars, watchVars>>

\* the provider's use: toLocalPath(v) of a virtual URI
PtToLocal ==
    /\ pt.phase = "idle"
    /\ \E v \in VirtualUris :
          pt' = [PtIdle EXCEPT !.phase = "toLocal", !.u = v, !.local = toLocalPath(v)]
    /\ UNCHANGED <<worldVars, fsVars, watchVars>>

\* back again: fromLocalPath(Uri.file(toLocalPath(v)))
PtThenFromLocal ==
    /\ pt.phase = "toLocal"
    /\ pt.local.ok
    /\ LET file == UriFile(pt.local.value)
       IN pt' = [pt EXCEPT !.phase = "roundVirtual",
                           !.back = IF file.ok THEN fromLocalPath(file.value)
                                    ELSE Throw(file.error, NoUri)]
    /\ UNCHANGED <<worldVars, fsVars, watchVars>>

PtNext == PtFromLocal \/ PtThenToLocal \/ PtToLocal \/ PtThenFromLocal

----------------------------------------------------------------------------
(* The world outside the provider: repositories and their working trees *)

\* the characters String.prototype.trim removes
WhiteSpace == {" ", "\t", "\n", "\r"}

\* String.prototype.trim
Trim(s) ==
    LET keep == {i \in 1..Len(s) : s[i] \notin WhiteSpace}
    IN IF keep = {} THEN <<>>
       ELSE SubSeq(s, CHOOSE i \in keep : \A j \in keep : i <= j, Max(keep))

RootR == <<"/", "r">>
RootQ == <<"/", "q">>

\* the repositories on this machine, by their top-level directory
Repos == {RootR, RootQ}

\* whether path is dir or lies below it
IsUnder(path, dir) ==
    \/ path = dir
    \/ /\ Len(path) > Len(dir) + 1
       /\ SubSeq(path, 1, Len(dir)) = dir
       /\ path[Len(dir) + 1] = SLASH

\* fs.stat(path): the fs.Stats of the working tree's entry at path, or ENOENT
fsStat(path) ==
    LET hit == {f \in worktree : f.path = path}
    IN IF hit = {}
       THEN [ok |-> FALSE, error |-> "ENOENT", isFile |-> FALSE, isDirectory |-> FALSE,
             isSymbolicLink |-> FALSE, ctimeMs |-> 0, mtimeMs |-> 0, size |-> 0, mode |-> 0]
       ELSE LET f == CHOOSE x \in hit : TRUE
            IN [ok |-> TRUE, error |-> "", isFile |-> f.kind = "file",
                isDirectory |-> f.kind = "dir",
                \* fs.stat follows links: it never reports one
                isSymbolicLink |-> FALSE,
                ctimeMs |-> f.ctimeMs, mtimeMs |-> f.mtimeMs,
                size |-> f.size, mode |-> f.mode]

\* fs.readFile(path): the bytes of the file at path
fsReadFile(path) ==
    LET hit == {f \in worktree : f.path = path}
    IN IF hit = {} THEN Throw("ENOENT", <<>>)
       ELSE LET f == CHOOSE x \in hit : TRUE
            IN IF f.kind = "dir" THEN Throw("EISDIR", <<>>) ELSE Return(f.content)

\* execFile('git', ['rev-parse', '--show-toplevel'], {cwd}): the top level of
\* the repository that holds cwd, on a line of its own; the call fails
\* outside every repository and when cwd is no directory
gitRevParseShowToplevel(cwd) ==
    LET cwdStat == fsStat(cwd)
        holding == {r \in Repos : IsUnder(cwd, r)}
    IN IF ~cwdStat.ok \/ ~cwdStat.isDirectory THEN Throw("ENOENT", <<>>)
       ELSE IF holding = {} THEN Throw("ExecError", <<>>)
       ELSE Return((CHOOSE r \in holding : \A o \in holding : Len(o) <= Len(r)) \o <<"\n">>)

getGitRootForFile(filePath) ==
    LET stat == fsStat(filePath)
    IN IF ~stat.ok THEN Throw(stat.error, <<>>)
       ELSE LET \* the cwd is computed once, then the command is run in it
                outs == {gitRevParseShowToplevel(cwd) :
                            cwd \in {IF stat.isDirectory THEN filePath
                                     ELSE dirname(filePath)}}
                out == CHOOSE o \in outs : TRUE
            IN IF out.ok THEN Return(Trim(out.value)) ELSE out

\* a directory of the working tree (mode 040755)
Dir(path) == [path |-> path, kind |-> "dir", mode |-> 16877, content |-> <<>>,
              size |-> 4096, ctimeMs |-> 3, mtimeMs |-> 4]

\* a regular file of the working tree, with its permission bits and bytes
FileWith(path, mode, content) ==
    [path |-> path, kind |-> "file", mode |-> mode, content |-> content,
     size |-> Len(content), ctimeMs |-> 5, mtimeMs |-> 6]

\* a regular file (mode 0100644) with one byte
File(path) == FileWith(path, 33188, <<"x">>)

\* the working tree the watch calls run against: two repositories with files
\* a and b in the first and a in the second; the first also has c staged,
\* with no file in the working tree
WatchWorktree ==
    {Dir(<<SLASH>>), Dir(RootR), Dir(RootQ),
     File(RootR \o <<SLASH, "a">>), File(RootR \o <<SLASH, "b">>),
     File(RootQ \o <<SLASH, "a">>)}

Virtual(path) == [scheme |-> SCHEME, authority |-> <<>>, path |-> path,
                  query |-> <<>>, fragment |-> <<>>]

\* the virtual URIs the host asks to watch
WatchUris ==
    {Virtual(RootR \o <<SLASH>> \o PREFIX_DIR \o <<SLASH, "a">>),
     Virtual(RootR \o <<SLASH>> \o PREFIX_DIR \o <<SLASH, "b">>),
     Virtual(RootR \o <<SLASH>> \o PREFIX_DIR \o <<SLASH, "c">>),
     Virtual(RootQ \o <<SLASH>> \o PREFIX_DIR \o <<SLASH, "a">>)}

----------------------------------------------------------------------------
(* The oracle: the git commands the provider runs *)

\* the field separator %x00 of the --format strings, as one character
NUL == "NUL"

OctalDigits == <<"0", "1", "2", "3", "4", "5", "6", "7">>
DecimalDigits == <<"0", "1", "2", "3", "4", "5", "6", "7", "8", "9">>

RECURSIVE ToString8(_)
\* Number.prototype.toString(8)
ToString8(n) ==
    IF n < 8 THEN <<OctalDigits[n + 1]>>
    ELSE ToString8(n \div 8) \o <<OctalDigits[(n % 8) + 1]>>

RECURSIVE ToString10(_)
\* a number as git prints it
ToString10(n) ==
    IF n < 10 THEN <<DecimalDigits[n + 1]>>
    ELSE ToString10(n \div 10) \o <<DecimalDigits[(n % 10) + 1]>>

DigitValue(digits, ch) == (CHOOSE k \in 1..Len(digits) : digits[k] = ch) - 1

RECURSIVE ParseDigits(_, _, _)
\* the value of the leading digits of s in a base (strtoul, parseInt)
ParseDigits(s, digits, acc) ==
    IF Len(s) = 0 \/ ~(\E k \in 1..Len(digits) : digits[k] = Head(s)) THEN acc
    ELSE ParseDigits(Tail(s), digits, acc * Len(digits) + DigitValue(digits, Head(s)))

\* Number.parseInt of a decimal string
ParseInt(s) == ParseDigits(s, DecimalDigits, 0)

\* the bytes written and read: a line feed and a letter
Bytes == {"\n", "x"}

Contents == SeqsUpTo(Bytes, MaxLen)

RECURSIVE HexDump(_)
HexDump(content) ==
    IF Len(content) = 0 THEN <<>>
    ELSE (IF Head(content) = "\n" THEN <<"0", "a">> ELSE <<"7", "8">>) \o HexDump(Tail(content))

\* an object name that is the same for all bytes
ObjectNameOfNothing(content) == <<"e">>

\* the object name git gives a blob: a function of its bytes alone, different
\* for different bytes and never empty
ObjectName(content) == <<"e">> \o HexDump(content)

\* the repository that holds the directory cwd: the nearest root above it
Toplevel(cwd) ==
    LET holding == {r \in Repos : IsUnder(cwd, r)}
    IN CHOOSE r \in holding : \A o \in holding : Len(o) <= Len(r)

\* whether git can run in cwd: execFile needs the directory, git a repository
CanRunGit(cwd) ==
    /\ fsStat(cwd).ok /\ fsStat(cwd).isDirectory
    /\ \E r \in Repos : IsUnder(cwd, r)

\* an absolute path inside the repository, relative to its root
InRepo(root, path) ==
    IF path = root THEN <<>> ELSE SubSeq(path, Len(root) + 2, Len(path))

\* the order of characters git sorts paths by
CharOrder ==
    <<"\n", ".", "/", "a", "b", "c", "d", "e", "g", "k", "m", "q", "r", "s", "t", "x">>

CharRank(ch) == CHOOSE k \in 1..Len(CharOrder) : CharOrder[k] = ch

RECURSIVE PathLess(_, _)
PathLess(p, q) ==
    IF Len(q) = 0 THEN FALSE
    ELSE IF Len(p) = 0 THEN TRUE
    ELSE IF Head(p) # Head(q) THEN CharRank(Head(p)) < CharRank(Head(q))
    ELSE PathLess(Tail(p), Tail(q))

\* the index keeps its entries ordered by path, then by stage
EntryLess(e, f) == PathLess(e.path, f.path) \/ (e.path = f.path /\ e.stage < f.stage)

RECURSIVE SortEntries(_)
SortEntries(S) ==
    IF S = {} THEN <<>>
    ELSE LET first == CHOOSE e \in S : \A f \in S \ {e} : EntryLess(e, f)
         IN <<first>> \o SortEntries(S \ {first})

\* the entries of the index of root that a literal pathspec selects: the
\* path itself, or everything below it when it names a directory
EntriesAt(root, rel) ==
    {e \in index : e.root = root /\ (rel = <<>> \/ IsUnder(e.path, rel))}

\* %(objecttype) of an index entry: a gitlink is a commit, all else a blob
ObjectType(e) ==
    IF e.mode = <<"1", "6", "0", "0", "0", "0">> THEN <<"c", "o", "m", "m", "i", "t">>
    ELSE <<"b", "l", "o", "b">>

RECURSIVE Lines(_)
\* the lines of an output, each ended by a line feed
Lines(texts) ==
    IF Len(texts) = 0 THEN <<>>
    ELSE Head(texts) \o <<"\n">> \o Lines(Tail(texts))

\* what one piece of a --format string prints for an entry
FormatField(field, e) ==
    IF field = "%(objecttype)" THEN ObjectType(e)
    ELSE IF field = "%(objectname)" THEN e.oid
    ELSE IF field = "%(objectmode)" THEN e.mode
    ELSE IF field = "%x00" THEN <<NUL>>
    ELSE <<field>>

RECURSIVE FormatEntry(_, _)
\* an entry printed in a format, a sequence of pieces
FormatEntry(format, e) ==
    IF Len(format) = 0 THEN <<>>
    ELSE FormatField(Head(format), e) \o FormatEntry(Tail(format), e)

\* one line per entry, in the format asked for
FormatLines(entries, format) ==
    Lines([k \in 1..Len(entries) |-> FormatEntry(format, entries[k])])

\* execFile('git', ['--literal-pathspecs', 'ls-files', '--cached',
\* '--format=...', pathspec], {cwd}): fails outside a repository
gitLsFiles(cwd, pathspec, format) ==
    IF ~CanRunGit(cwd) THEN Throw("ExecError", <<>>)
    ELSE IF ~IsUnder(pathspec, Toplevel(cwd)) THEN Throw("ExecError", <<>>)
    ELSE Return(FormatLines(SortEntries(EntriesAt(Toplevel(cwd),
                                                  InRepo(Toplevel(cwd), pathspec))),
                            format))

\* whether the pattern dir/* of a glob pathspec matches a path: the star
\* stands for one segment and never for a separator
GlobChildOf(path, dir) ==
    /\ IsUnder(path, dir) /\ path # dir
    /\ \A k \in (Len(dir) + 2)..Len(path) : path[k] # SLASH

\* %(path): git prints the path of an entry beneath cwd as seen from cwd
PathFrom(cwd, path) == SubSeq(path, Len(cwd) + 2, Len(path))

\* execFile('git', ['ls-files', '--cached', '--format=%(path)%x00%(objecttype)',
\* `:(glob)${dir}/*`], {cwd}): %(path) is the entry's path as seen from cwd
gitLsFilesGlob(cwd, dir) ==
    IF ~CanRunGit(cwd) THEN Throw("ExecError", <<>>)
    ELSE IF ~IsUnder(dir, Toplevel(cwd)) THEN Throw("ExecError", <<>>)
    ELSE LET root == Toplevel(cwd)
             hits == SortEntries({e \in index :
                         /\ e.root = root
                         /\ GlobChildOf(root \o <<SLASH>> \o e.path, dir)})
         IN Return(Lines([k \in 1..Len(hits) |->
                PathFrom(cwd, root \o <<SLASH>> \o hits[k].path)
                \o FormatEntry(<<"%x00", "%(objecttype)">>, hits[k])]))

\* the blob an object name stands for in the store of cwd's repository
BlobsNamed(cwd, object_id) ==
    {c \in objects[Toplevel(cwd)] : ObjectName(c) = object_id}

\* execFile('git', ['cat-file', 'blob', object_id], {cwd, encoding: 'buffer'})
gitCatFileBlob(cwd, object_id) ==
    IF ~CanRunGit(cwd) \/ BlobsNamed(cwd, object_id) = {} THEN Throw("ExecError", <<>>)
    ELSE Return(CHOOSE c \in BlobsNamed(cwd, object_id) : TRUE)

\* execFile('git', ['cat-file', '-s', object_id], {cwd})
gitCatFileSize(cwd, object_id) ==
    IF ~CanRunGit(cwd) \/ BlobsNamed(cwd, object_id) = {} THEN Throw("ExecError", <<>>)
    ELSE Return(ToString10(Len(CHOOSE c \in BlobsNamed(cwd, object_id) : TRUE)) \o <<"\n">>)

\* a hash-object that computes the name and stores nothing (no -w)
StoreBlobNot(store, content) == store

\* what `git hash-object -w` adds to an object store
StoreBlob(store, content) == store \cup {content}

\* execFile('git', ['hash-object', '-w', '--stdin'], {cwd}) fed content: the
\* name of the blob on a line
gitHashObject(cwd, content) ==
    IF ~CanRunGit(cwd) THEN Throw("ExecError", <<>>)
    ELSE Return(ObjectName(content) \o <<"\n">>)

\* git's create_ce_mode: the mode an index entry records for a given mode
CreateCeMode(mode) ==
    IF mode \div 4096 = 10 THEN 40960
    ELSE IF mode \div 4096 \in {4, 14} THEN 57344
    ELSE 32768 + (IF (mode \div 64) % 2 = 1 THEN 493 ELSE 420)

\* the three fields of --cacheinfo <mode>,<object>,<path>: the mode is the
\* octal number before the first comma, the path all after the second
ParseCacheInfo(arg) ==
    LET commas == {k \in 1..Len(arg) : arg[k] = ","}
        c1 == CHOOSE k \in commas : \A j \in commas : k <= j
        c2 == CHOOSE k \in commas \ {c1} : \A j \in commas \ {c1} : k <= j
        modeText == SubSeq(arg, 1, c1 - 1)
    IN IF Cardinality(commas) < 2 THEN [ok |-> FALSE, mode |-> 0, oid |-> <<>>, path |-> <<>>]
       ELSE [ok |-> /\ Len(modeText) > 0
                    /\ \A k \in 1..Len(modeText) :
                          \E d \in 1..Len(OctalDigits) : OctalDigits[d] = modeText[k],
             mode |-> ParseDigits(modeText, OctalDigits, 0),
             oid |-> SubSeq(arg, c1 + 1, c2 - 1),
             path |-> SubSeq(arg, c2 + 1, Len(arg))]

\* whether two index paths cannot both be entries: one names a directory
\* the other lies in
DirectoryFileConflict(p, q) == p # q /\ (IsUnder(p, q) \/ IsUnder(q, p))

\* execFile('git', ['update-index', ...add_flag, '--cacheinfo', arg], {cwd}):
\* whether the command succeeds. A path not yet in the index needs --add and
\* must not meet an entry as file and directory; the path is a clean relative
\* one. The object need not exist
gitUpdateIndexOk(cwd, add_flag, arg) ==
    /\ CanRunGit(cwd)
    /\ LET info == ParseCacheInfo(arg)
           mine == {e \in index : e.root = Toplevel(cwd)}
       IN /\ info.ok
          /\ Len(info.oid) > 0
          /\ Len(info.path) > 0 /\ info.path[1] # SLASH
          /\ \A seg \in Members(Segments(info.path)) : seg \notin {<<>>, <<".">>, <<".", ".">>}
          /\ \/ \E e \in mine : e.path = info.path
             \/ add_flag /\ \A e \in mine : ~DirectoryFileConflict(e.path, info.path)

\* the index after a successful update-index --cacheinfo: the entries of the
\* path, of whatever stage, give way to one entry of stage 0
gitUpdateIndex(cwd, arg) ==
    LET info == ParseCacheInfo(arg)
        root == Toplevel(cwd)
    IN {e \in index : ~(e.root = root /\ e.path = info.path)}
       \cup {[root |-> root, path |-> info.path,
              mode |-> ToString8(CreateCeMode(info.mode)),
              oid |-> info.oid, stage |-> 0]}

\* path.relative(from, to) of two absolute paths
relative(from, to) ==
    LET f == SelectSeq(Segments(normalize(from)), LAMBDA seg : seg # <<>>)
        t == SelectSeq(Segments(normalize(to)), LAMBDA seg : seg # <<>>)
        same == {k \in 0..Len(f) : k <= Len(t) /\ \A j \in 1..k : f[j] = t[j]}
        common == Max(same)
    IN JoinWith([k \in 1..(Len(f) - common) |-> <<".", ".">>]
                \o SubSeq(t, common + 1, Len(t)), <<SLASH>>)

----------------------------------------------------------------------------
(* GitIndexWatcher and GitIndexFS.watch *)

SubIds == 1..MaxSubs

\* a watcher is named after the watch call that constructed it; notified is
\* the time of the index file that its fs.watch has last reported, caught the
\* name of the error that ended its loop
NoWatcher == [exists |-> FALSE, git_root |-> <<>>, listeners |-> <<>>,
              aborted |-> FALSE, loop |-> "none", notified |-> 0, caught |-> ""]

\* a watch call; owed notes that the index of its root was updated by a
\* writeFile while it was registered, and no event has fired for it since;
\* disposals counts the calls of dispose on the handle of its listener
NoSub == [called |-> FALSE, uri |-> NoUri, local_path |-> <<>>,
          resolution |-> "none", git_root |-> <<>>, is_cancelled |-> FALSE,
          listener |-> 0, disposed |-> FALSE, threw |-> FALSE, owed |-> FALSE,
          disposals |-> 0]

NoFanout == [happened |-> FALSE, git_root |-> <<>>, aborted |-> FALSE,
             received |-> <<>>, handler |-> 0, disposed |-> 0,
             fired |-> <<>>, resolved |-> {}]

\* a Set.prototype.add that adds nothing
SetAddNothing(seq, x) == seq

\* Set.prototype.add on an insertion-ordered set
SetAdd(seq, x) == IF \E i \in 1..Len(seq) : seq[i] = x THEN seq ELSE Append(seq, x)

\* a Set.prototype.delete that removes nothing
SetDeleteNothing(seq, x) == seq

\* a Set.prototype.delete that removes the oldest element
SetDeleteOldest(seq, x) == IF Len(seq) = 0 THEN seq ELSE Tail(seq)

\* Set.prototype.delete
SetDelete(seq, x) == SelectSeq(seq, LAMBDA y : y # x)

\* a hasListener that always finds one
hasListenerAlways(listeners) == TRUE

\* a hasListener that never finds one
hasListenerNever(listeners) == FALSE

\* GitIndexWatcher.hasListener, of a watcher's listener set
hasListener(listeners) == Len(listeners) # 0

\* a lookup that constructs a watcher on every resolution
IndexWatcherAlwaysNew(git_root, i) == i

\* `this._gitIndexWatchers.get(git_root) ?? new GitIndexWatcher(git_root)` in
\* watch call i: the watcher registered for the root, or else a new one
IndexWatcherFor(git_root, i) ==
    IF registry[git_root] # 0 THEN registry[git_root] ELSE i

\* the watch calls whose root resolution completed to root and whose
\* disposable is not disposed
ResolvedLive(root) ==
    {i \in SubIds : /\ subs[i].called /\ ~subs[i].disposed
                    /\ subs[i].resolution = "fulfilled" /\ subs[i].git_root = root}

\* GitIndexFS.watch(uri, options), up to the return of its disposable: the
\* root resolution is left in flight
Watch(i, uri) ==
    /\ ~subs[i].called
    /\ IF i = 1 THEN TRUE ELSE subs[i - 1].called
    /\ toLocalPath(uri).ok
    /\ subs' = [subs EXCEPT ![i] = [NoSub EXCEPT !.called = TRUE, !.uri = uri,
                                          !.local_path = toLocalPath(uri).value,
                                          !.resolution = "inflight"]]
    /\ UNCHANGED <<registry, watchers, notes, fanout, ptVars, worldVars, fsVars>>

\* the continuation after `await getGitRootForFile(local_path)` succeeded
WatchResolved(i) ==
    /\ subs[i].resolution = "inflight"
    /\ LET res == getGitRootForFile(subs[i].local_path)
           git_root == res.value
       IN /\ res.ok
          /\ IF subs[i].is_cancelled
             THEN /\ subs' = [subs EXCEPT ![i].resolution = "fulfilled",
                                          ![i].git_root = git_root]
                  /\ UNCHANGED <<registry, watchers, notes>>
             ELSE LET index_watcher == IndexWatcherFor(git_root, i)
                      \* new GitIndexWatcher(git_root): the watch on the index
                      \* file is opened and the loop started
                      made == IF index_watcher # i THEN watchers
                              ELSE [watchers EXCEPT ![i] =
                                       [exists |-> TRUE, git_root |-> git_root,
                                        listeners |-> <<>>, aborted |-> FALSE,
                                        loop |-> "running",
                                        notified |-> indexMtime[git_root],
                                        caught |-> ""]]
                  IN /\ registry' = [registry EXCEPT ![git_root] = index_watcher]
                     /\ watchers' = [made EXCEPT ![index_watcher].listeners =
                                        SetAdd(made[index_watcher].listeners, i)]
                     /\ UNCHANGED notes
                     /\ subs' = [subs EXCEPT ![i].resolution = "fulfilled",
                                             ![i].git_root = git_root,
                                             ![i].listener = index_watcher]
    /\ UNCHANGED <<fanout, ptVars, worldVars, fsVars>>

\* `await getGitRootForFile(local_path)` rejected: the async function ends
WatchRejected(i) ==
    /\ subs[i].resolution = "inflight"
    /\ ~getGitRootForFile(subs[i].local_path).ok
    /\ subs' = [subs EXCEPT ![i].resolution = "rejected"]
    /\ UNCHANGED <<registry, watchers, notes, fanout, ptVars, worldVars, fsVars>>

\* the callback of the disposable that watch call i returned, as the subs,
\* registry and watchers it leaves
AfterDisposeWith(i, cancelled) ==
    LET s == [subs[i] EXCEPT !.disposals = IF subs[i].listener # 0 THEN 1 ELSE 0]
        \* listener.dispose()
        afterListener == IF s.listener # 0
                         THEN [watchers EXCEPT ![s.listener].listeners =
                                  SetDelete(watchers[s.listener].listeners, i)]
                         ELSE watchers
        index_watcher == IF s.git_root # <<>> THEN registry[s.git_root] ELSE 0
    IN IF s.git_root # <<>> /\ index_watcher = 0
       THEN \* index_watcher is undefined: hasListener() throws a TypeError
            [subs |-> [subs EXCEPT ![i].is_cancelled = cancelled, ![i].disposals = s.disposals,
                                   ![i].disposed = TRUE, ![i].threw = TRUE],
             registry |-> registry,
             watchers |-> afterListener]
       ELSE IF s.git_root # <<>> /\ ~hasListener(afterListener[index_watcher].listeners)
       THEN [subs |-> [subs EXCEPT ![i].is_cancelled = cancelled, ![i].disposed = TRUE,
                                   ![i].disposals = s.disposals],
             registry |-> [registry EXCEPT ![s.git_root] = 0],
             watchers |-> [afterListener EXCEPT ![index_watcher].aborted = TRUE]]
       ELSE [subs |-> [subs EXCEPT ![i].is_cancelled = cancelled, ![i].disposed = TRUE,
                                   ![i].disposals = s.disposals],
             registry |-> registry,
             watchers |-> afterListener]

\* a callback that forgets to mark the resolution in flight as cancelled
AfterDisposeForgetsCancel(i) == AfterDisposeWith(i, subs[i].is_cancelled)

\* `is_cancelled = true`, then the listener and the watcher are let go
AfterDispose(i) == AfterDisposeWith(i, TRUE)

\* the disposable that watch returned is disposed (vscode.Disposable runs its
\* callback once)
DisposeWatch(i) ==
    /\ subs[i].called
    /\ ~subs[i].disposed
    /\ subs' = AfterDispose(i).subs
    /\ registry' = AfterDispose(i).registry
    /\ watchers' = AfterDispose(i).watchers
    /\ UNCHANGED <<notes, fanout, ptVars, worldVars, fsVars>>

\* the OS reports to the watch on the index file the change that a
\* writeFile's update-index made to it
IndexChangeNotified(w) ==
    /\ watchers[w].exists
    /\ watchers[w].loop = "running"
    /\ watchers[w].notified # indexMtime[watchers[w].git_root]
    /\ notes[w] < MaxNotes
    /\ notes' = [notes EXCEPT ![w] = notes[w] + 1]
    /\ watchers' = [watchers EXCEPT ![w].notified = indexMtime[watchers[w].git_root]]
    /\ UNCHANGED <<subs, registry, fanout, ptVars, worldVars, fsVars>>

\* the OS reports a change of the index file of root to the watch on it
IndexFileChanged(w) ==
    /\ watchers[w].exists
    /\ watchers[w].loop = "running"
    /\ notes[w] < MaxNotes
    /\ notes' = [notes EXCEPT ![w] = notes[w] + 1]
    /\ UNCHANGED <<subs, registry, watchers, fanout, ptVars, worldVars, fsVars>>

RECURSIVE FireAll(_)
\* `for (const listener of this._listeners) listener()`: each listener fires one
\* event on the provider's emitter, for the URI its watch call was given
FireAll(listeners) ==
    IF Len(listeners) = 0 THEN <<>>
    ELSE <<[sub |-> Head(listeners), type |-> "Changed", uri |-> subs[Head(listeners)].uri]>>
         \o FireAll(Tail(listeners))

\* the place of a listener in an insertion-ordered set, 0 when it is not there
PlaceIn(seq, x) ==
    IF \E k \in 1..Len(seq) : seq[k] = x THEN CHOOSE k \in 1..Len(seq) : seq[k] = x ELSE 0

\* the listeners a for-of over the live set calls when the handler of the
\* event of h disposes d's disposable: a listener deleted before its turn is
\* passed over
Visited(listeners, h, d) ==
    SelectSeq(listeners,
              LAMBDA x : ~(x = d /\ PlaceIn(listeners, h) # 0
                           /\ PlaceIn(listeners, d) > PlaceIn(listeners, h)))

\* one turn of the watcher's loop: `for await (const event of index_changes)`
\* takes an event and calls the listeners, each of which fires on the
\* emitter, whose handlers run at once. No handler disposes a watch (h = 0),
\* or the handler of the event of h disposes the disposable of watch call d
WatcherEvent(w, h, d) ==
    /\ watchers[w].exists
    /\ watchers[w].loop = "running"
    /\ notes[w] > 0
    /\ notes' = [notes EXCEPT ![w] = notes[w] - 1]
    /\ \/ h = 0 /\ d = 0
       \/ /\ h # 0 /\ d # 0
          /\ PlaceIn(watchers[w].listeners, h) # 0
          /\ subs[d].called /\ ~subs[d].disposed
    /\ fanout' = [happened |-> TRUE, git_root |-> watchers[w].git_root,
                  aborted |-> watchers[w].aborted,
                  received |-> watchers[w].listeners,
                  handler |-> h, disposed |-> d,
                  fired |-> FireAll(Visited(watchers[w].listeners, h, d)),
                  resolved |-> ResolvedLive(watchers[w].git_root)]
    /\ LET after == IF h = 0 THEN [subs |-> subs, registry |-> registry,
                                    watchers |-> watchers]
                    ELSE AfterDispose(d)
           called == Members(Visited(watchers[w].listeners, h, d))
       IN /\ subs' = [i \in SubIds |-> IF i \in called
                                        THEN [after.subs[i] EXCEPT !.owed = FALSE]
                                        ELSE after.subs[i]]
          /\ registry' = after.registry
          /\ watchers' = after.watchers
    /\ UNCHANGED <<ptVars, worldVars, fsVars>>

\* a catch that swallows every error
LoopCatchSwallowsAll(name) == "returned"

\* `catch (err) { if (err && err.name === 'AbortError') return; throw err; }`:
\* how the loop ends on an error of the given name
LoopCatch(name) == IF name = "AbortError" THEN "returned" ELSE "threw"

\* the errors of a watch on a file other than its cancellation, by name: the
\* index file is missing
StreamErrors == {"ENOENT"}

\* the loop of an aborted watcher meets the AbortError and returns
WatcherLoopAborted(w) ==
    /\ watchers[w].exists
    /\ watchers[w].aborted
    /\ watchers[w].loop = "running"
    /\ watchers' = [watchers EXCEPT ![w].loop = LoopCatch("AbortError"),
                                    ![w].caught = "AbortError"]
    /\ notes' = [notes EXCEPT ![w] = 0]
    /\ UNCHANGED <<subs, registry, fanout, ptVars, worldVars, fsVars>>

\* the watch on the index file fails with an error that is no AbortError
\* (the index file is missing): the loop's catch
\* rethrows it and the loop's promise rejects, with nobody to handle it
WatcherStreamFailed(w) ==
    /\ watchers[w].exists
    /\ watchers[w].loop = "running"
    /\ \E name \in StreamErrors :
          watchers' = [watchers EXCEPT ![w].loop = LoopCatch(name), ![w].caught = name]
    /\ notes' = [notes EXCEPT ![w] = 0]
    /\ UNCHANGED <<subs, registry, fanout, ptVars, worldVars, fsVars>>

\* GitIndexWatcher.watch(listener), called with the listener of call i: the
\* listener joins the set and a handle for it is returned
WatcherWatch(w, i) ==
    /\ watchers[w].exists
    /\ subs[i].listener = 0
    /\ IF i = 1 THEN TRUE ELSE subs[i - 1].listener # 0
    /\ watchers' = [watchers EXCEPT ![w].listeners = SetAdd(watchers[w].listeners, i)]
    /\ subs' = [subs EXCEPT ![i].listener = w]
    /\ UNCHANGED <<registry, notes, fanout, ptVars, worldVars, fsVars>>

\* dispose() of the handle that GitIndexWatcher.watch returned for the
\* listener of call i: a vscode.Disposable calls its callback the first time
\* and has dropped it by the second
HandleDispose(i) ==
    /\ subs[i].listener # 0
    /\ subs[i].disposals < MaxDisposals
    /\ subs' = [subs EXCEPT ![i].disposals = subs[i].disposals + 1]
    /\ watchers' = IF subs[i].disposals = 0
                   THEN [watchers EXCEPT ![subs[i].listener].listeners =
                            SetDelete(watchers[subs[i].listener].listeners, i)]
                   ELSE watchers
    /\ UNCHANGED <<registry, notes, fanout, ptVars, worldVars, fsVars>>

\* GitIndexWatcher.dispose(): `abort_controller.abort()`
WatcherDispose(w) ==
    /\ watchers[w].exists
    /\ ~watchers[w].aborted
    /\ watchers' = [watchers EXCEPT ![w].aborted = TRUE]
    /\ UNCHANGED <<subs, registry, notes, fanout, ptVars, worldVars, fsVars>>

\* the watcher alone, with its callers doing what they like
WatcherNext ==
    \/ \E w, i \in SubIds : WatcherWatch(w, i)
    \/ \E i \in SubIds : HandleDispose(i)
    \/ \E w \in SubIds : WatcherDispose(w)
    \/ \E w \in SubIds : IndexFileChanged(w)
    \/ \E w \in SubIds : WatcherEvent(w, 0, 0)
    \/ \E w \in SubIds : WatcherLoopAborted(w)
    \/ \E w \in SubIds : WatcherStreamFailed(w)

WatchNext ==
    \/ \E i \in SubIds, uri \in WatchUris : Watch(i, uri)
    \/ \E i \in SubIds : WatchResolved(i)
    \/ \E i \in SubIds : WatchRejected(i)
    \/ \E i \in SubIds : DisposeWatch(i)
    \/ \E w \in SubIds : IndexFileChanged(w)
    \/ \E w \in SubIds, h, d \in SubIds \cup {0} : WatcherEvent(w, h, d)
    \/ \E w \in SubIds : WatcherLoopAborted(w)
    \/ \E w \in SubIds : WatcherStreamFailed(w)

----------------------------------------------------------------------------
(* GitIndexFS.stat, GitIndexFS.readFile and GitIndexFS.writeFile *)

TYPE_MAP == [t \in {<<"b", "l", "o", "b">>, <<"t", "r", "e", "e">>} |->
                IF t = <<"b", "l", "o", "b">> THEN "File" ELSE "Directory"]

\* the first repository's working tree for the file calls: files a and b, a
\* directory d holding a file a; no c, no e and no directory n
FsWorktree ==
    WatchWorktree
    \cup {Dir(RootR \o <<SLASH, "d">>), File(RootR \o <<SLASH, "d", SLASH, "a">>)}

\* what is staged before the first call: a as an executable, c (deleted
\* from the working tree since) and d/a; b is untracked
StagedBefore ==
    {[root |-> RootR, path |-> <<"a">>, mode |-> ToString8(33261),
      oid |-> ObjectName(<<"\n">>), stage |-> 0],
     [root |-> RootR, path |-> <<"c">>, mode |-> ToString8(33188),
      oid |-> ObjectName(<<"\n">>), stage |-> 0],
     [root |-> RootR, path |-> <<"d", SLASH, "a">>, mode |-> ToString8(33188),
      oid |-> ObjectName(<<"\n">>), stage |-> 0]}

\* the modification time of an index file before the first call
IndexMtimeBefore == 7

\* the virtual URIs the host calls stat, readFile and writeFile with
FsUris ==
    {Virtual(RootR \o <<SLASH>> \o PREFIX_DIR \o <<SLASH, "a">>),
     Virtual(RootR \o <<SLASH>> \o PREFIX_DIR \o <<SLASH, "b">>),
     Virtual(RootR \o <<SLASH>> \o PREFIX_DIR \o <<SLASH, "c">>),
     Virtual(RootR \o <<SLASH>> \o PREFIX_DIR \o <<SLASH, "d">>),
     Virtual(RootR \o <<SLASH>> \o PREFIX_DIR \o <<SLASH, "e">>),
     Virtual(RootR \o <<SLASH, "n", SLASH>> \o PREFIX_DIR \o <<SLASH, "a">>)}

\* URIs of another shape that the host may hand over: the file scheme, a
\* query, a fragment, no marker segment, the marker one segment too high
MalformedUris ==
    {[Virtual(RootR \o <<SLASH>> \o PREFIX_DIR \o <<SLASH, "a">>) EXCEPT !.scheme = "file"],
     [Virtual(RootR \o <<SLASH>> \o PREFIX_DIR \o <<SLASH, "a">>) EXCEPT !.query = <<"q">>],
     [Virtual(RootR \o <<SLASH>> \o PREFIX_DIR \o <<SLASH, "a">>) EXCEPT !.fragment = <<"f">>],
     Virtual(RootR \o <<SLASH, "a">>),
     Virtual(<<SLASH>> \o PREFIX_DIR \o RootR \o <<SLASH, "a">>)}

\* the working tree of a merge that has stopped on k, with the submodule m
\* checked out in d
ProviderWorktree ==
    FsWorktree
    \cup {File(RootR \o <<SLASH, "k">>), Dir(RootR \o <<SLASH, "d", SLASH, "m">>)}

\* the name of the commit the submodule is at; the repository's own store
\* does not hold that commit
SubmoduleCommit == <<"c", "0">>

\* the index of that merge: k with its three stages (base, ours, theirs), g
\* added on both sides and since removed from the working tree, and the
\* submodule's gitlink beside what was staged before
ProviderStaged ==
    StagedBefore
    \cup {[root |-> RootR, path |-> <<"k">>, mode |-> ToString8(33188),
           oid |-> ObjectName(<<"x">>), stage |-> 1],
          [root |-> RootR, path |-> <<"k">>, mode |-> ToString8(33188),
           oid |-> ObjectName(<<"\n">>), stage |-> 2],
          [root |-> RootR, path |-> <<"k">>, mode |-> ToString8(33188),
           oid |-> ObjectName(<<>>), stage |-> 3],
          [root |-> RootR, path |-> <<"g">>, mode |-> ToString8(33188),
           oid |-> ObjectName(<<"x">>), stage |-> 2],
          [root |-> RootR, path |-> <<"g">>, mode |-> ToString8(33188),
           oid |-> ObjectName(<<"\n">>), stage |-> 3],
          [root |-> RootR, path |-> <<"d", SLASH, "m">>, mode |-> ToString8(57344),
           oid |-> SubmoduleCommit, stage |-> 0]}

\* the virtual URIs the host calls the provider's methods with, one call at
\* a time
ProviderUris ==
    FsUris
    \cup {Virtual(RootR \o <<SLASH>> \o PREFIX_DIR \o <<SLASH, "k">>),
          Virtual(RootR \o <<SLASH>> \o PREFIX_DIR \o <<SLASH, "g">>),
          Virtual(RootR \o <<SLASH, "d", SLASH>> \o PREFIX_DIR \o <<SLASH, "a">>),
          Virtual(RootR \o <<SLASH, "d", SLASH>> \o PREFIX_DIR \o <<SLASH, "m">>)}

\* toLocalPath of each of them, computed once
LocalPathOf == [u \in ProviderUris \cup MalformedUris |-> toLocalPath(u)]

FsLocalPaths == {LocalPathOf[u].value : u \in ProviderUris}

CallIds == 1..MaxCalls

NoFileStat == [type |-> "Unknown", ctime |-> 0, mtime |-> 0, size |-> 0]

NoOutcome == [ok |-> FALSE, error |-> "", bytes |-> <<>>]

\* the options of writeFile: { create, overwrite }
WriteOptions == [create : BOOLEAN, overwrite : BOOLEAN]

\* the options the host saves a document with
HostOptions == [create |-> TRUE, overwrite |-> TRUE]

\* no writeFile was run
NoWritten == [ok |-> FALSE, error |-> "", index |-> {}, stored |-> {}]

\* a call slot: the call's arguments, the await it stands at, its locals and
\* its result; then what an observer notes about it: the git commands it has
\* run, in order (execs), the outcome a read of
\* the path would have had when the call began (old), the entries staged at
\* the path then (staged), the bytes the latest write had put there (expect)
\* and the bytes staged at the path while the call ran (seen); for a
\* writeFile, the options it was given and what writeFile does to the state
\* the call began in when nothing else runs (alone)
NoCall ==
    [op |-> "none", uri |-> Virtual(<<>>), content |-> <<>>, pc |-> "none",
     local_path |-> <<>>, object_type |-> <<>>, object_id |-> <<>>, size |-> 0,
     git_root |-> <<>>, mode |-> <<>>, add_flag |-> FALSE, relative_path |-> <<>>,
     error |-> "", bytes |-> <<>>, stat |-> NoFileStat, listing |-> <<>>,
     execs |-> <<>>, warned |-> FALSE,
     old |-> NoOutcome, staged |-> {}, expect |-> [defined |-> FALSE, bytes |-> <<>>],
     seen |-> {}, options |-> HostOptions, alone |-> NoWritten]

Finished(c) == calls[c].pc \in {"returned", "rejected"}

\* the entries of the index that a listing of the local path shows
StagedAt(local_path) ==
    IF \E r \in Repos : IsUnder(local_path, r)
    THEN LET root == Toplevel(local_path)
         IN EntriesAt(root, InRepo(root, local_path))
    ELSE {}

\* what readFile gives when nothing else runs: the blob of the first entry
\* staged at the path, else the working-tree file
ReadNow(local_path) ==
    LET lookup == gitLsFiles(dirname(local_path), local_path, <<"%(objectname)">>)
        ids == SplitOn(Trim(lookup.value), "\n")
        blob == gitCatFileBlob(dirname(local_path), ids[1])
        file == fsReadFile(local_path)
    IN IF ~lookup.ok THEN [ok |-> FALSE, error |-> lookup.error, bytes |-> <<>>]
       ELSE IF ids[1] = <<>>
       THEN [ok |-> file.ok,
             error |-> IF file.error = "ENOENT" THEN "FileNotFound" ELSE file.error,
             bytes |-> file.value]
       ELSE [ok |-> blob.ok, error |-> blob.error, bytes |-> blob.value]

\* the updates of the index made so far and those the writes in flight may make
Updates ==
    (indexMtime[RootR] - IndexMtimeBefore) + (indexMtime[RootQ] - IndexMtimeBefore)
    + Cardinality({c \in CallIds : calls[c].op = "writeFile" /\ ~Finished(c)})

\* the call c stops with an error
Reject(c, error) ==
    calls' = [calls EXCEPT ![c].pc = "rejected", ![c].error = error]

\* a wrapper that runs a command that failed once more
RejectExecRetries(c, command, error) ==
    calls' = [calls EXCEPT ![c].execs = Append(@, command)]

\* the call c stops with the error of the git command it ran
RejectExec(c, command, error) ==
    calls' = [calls EXCEPT ![c].pc = "rejected", ![c].error = error,
                           ![c].execs = Append(@, command)]

\* the await a method stands at after toLocalPath
FirstAwait(op) ==
    IF op = "writeFile" THEN "hashObject"
    ELSE IF op = "readDirectory" THEN "lsFilesGlob"
    ELSE "lsFiles"

\* writeFile(uri, content, options) run from its first await to its end with
\* nothing else running: whether it returns, the error it rejects with, and
\* the index and the object store of the repository it leaves
WriteFileAlone(local_path, content) ==
    LET cwd == dirname(local_path)
        hashed == gitHashObject(cwd, content)
        object_id == Trim(hashed.value)
        store == IF \E r \in Repos : IsUnder(cwd, r) THEN objects[Toplevel(cwd)] ELSE {}
        stored == StoreBlob(store, content)
        listed == gitLsFiles(cwd, local_path, <<"%(objectmode)">>)
        existing_mode == Trim(listed.value)
        stat == fsStat(local_path)
        mode == IF existing_mode # <<>> THEN existing_mode ELSE ToString8(stat.mode)
        add_flag == existing_mode = <<>>
        root == getGitRootForFile(local_path)
        arg == JoinWith(<<mode, object_id, relative(root.value, local_path)>>, <<",">>)
        failed(error, blobs) == [ok |-> FALSE, error |-> error, index |-> index,
                                 stored |-> blobs]
    IN IF ~hashed.ok THEN failed(hashed.error, store)
       ELSE IF ~listed.ok THEN failed(listed.error, stored)
       ELSE IF existing_mode = <<>> /\ ~stat.ok THEN failed(stat.error, stored)
       ELSE IF ~root.ok THEN failed(root.error, stored)
       ELSE IF ~gitUpdateIndexOk(cwd, add_flag, arg) THEN failed("ExecError", stored)
       ELSE [ok |-> TRUE, error |-> "", index |-> gitUpdateIndex(cwd, arg),
             stored |-> stored]

\* const local_path = toLocalPath(uri), and the first await of each method.
\* A call takes the first slot that holds no call in flight. Of watch only
\* the call that throws is taken here, the others are followed by Watch
CallWith(c, op, uri, content, options) ==
    /\ calls[c].op = "none" \/ Finished(c)
    /\ op = "watch" => ~LocalPathOf[uri].ok
    /\ \A k \in CallIds : k < c => calls[k].op # "none" /\ ~Finished(k)
    /\ op = "writeFile" => Updates < MaxUpdates
    /\ op # "writeFile" => content = <<>>
    /\ LET local == LocalPathOf[uri]
           begun == [NoCall EXCEPT !.op = op, !.uri = uri, !.content = content,
                                   !.options = options]
       IN calls' = [calls EXCEPT ![c] =
              IF ~local.ok
                     THEN [begun EXCEPT !.pc = "rejected", !.error = local.error,
                                        !.old = [ok |-> FALSE, error |-> local.error,
                                                 bytes |-> <<>>]]
              ELSE [begun EXCEPT !.pc = FirstAwait(op),
                                 !.local_path = local.value,
                                 !.old = ReadNow(local.value),
                                 !.staged = StagedAt(local.value),
                                 !.expect = written[local.value],
                                 !.alone = IF op = "writeFile"
                                           THEN WriteFileAlone(local.value, content)
                                           ELSE NoWritten]]
    /\ UNCHANGED <<ptVars, worldVars, written, watchVars>>

\* a call with the options the host gives
Call(c, op, uri, content) == CallWith(c, op, uri, content, HostOptions)

\* the directory git runs in: path.dirname(local_path)
Cwd(c) == dirname(calls[c].local_path)

\* fs.stat of an index file: the file of a repository holds its time
fsStatIndex(path) ==
    LET holders == {r \in Repos : path = r \o <<SLASH, ".", "g", "i", "t", SLASH,
                                                 "i", "n", "d", "e", "x">>}
    IN IF holders = {} THEN Throw("ENOENT", 0)
       ELSE Return(indexMtime[CHOOSE r \in holders : TRUE])

\* stat: await execFile('git', [..., 'ls-files', ...]), then the split
StatLsFiles(c) ==
    /\ calls[c].op = "stat" /\ calls[c].pc = "lsFiles"
    /\ LET out == gitLsFiles(Cwd(c), calls[c].local_path,
                             <<"%(objecttype)", "%x00", "%(objectname)">>)
           entries == SplitOn(Trim(out.value), "\n")
           fields == SplitOn(entries[1], NUL)
       IN IF ~out.ok THEN RejectExec(c, "ls-files", out.error)
          ELSE IF entries[1] = <<>> THEN calls' = [calls EXCEPT ![c].execs = Append(@, "ls-files"),
                                      ![c].pc = "fsStat"]
          ELSE calls' = [calls EXCEPT ![c].execs = Append(@, "ls-files"),
                                      ![c].warned = Len(entries) > 1,
                                      ![c].pc = "catFileSize",
                                      ![c].object_type = fields[1],
                                      ![c].object_id = fields[2]]
    /\ UNCHANGED <<ptVars, worldVars, written, watchVars>>

\* stat: nothing staged, await fs.stat(local_path)
StatFsStat(c) ==
    /\ calls[c].op = "stat" /\ calls[c].pc = "fsStat"
    /\ LET stat == fsStat(calls[c].local_path)
       IN IF stat.ok
          THEN calls' = [calls EXCEPT
                   ![c].pc = "returned",
                   ![c].stat = [type |-> IF stat.isFile THEN "File"
                                         ELSE IF stat.isDirectory THEN "Directory"
                                         ELSE IF stat.isSymbolicLink THEN "SymbolicLink"
                                         ELSE "Unknown",
                                ctime |-> stat.ctimeMs,
                                mtime |-> stat.mtimeMs,
                                size |-> stat.size]]
          ELSE IF stat.error = "ENOENT" THEN Reject(c, "FileNotFound")
          ELSE Reject(c, stat.error)
    /\ UNCHANGED <<ptVars, worldVars, written, watchVars>>

\* stat: await execFile('git', ['cat-file', '-s', object_id]), then the
\* assertion on the object type
StatCatFileSize(c) ==
    /\ calls[c].op = "stat" /\ calls[c].pc = "catFileSize"
    /\ LET out == gitCatFileSize(Cwd(c), calls[c].object_id)
       IN IF ~out.ok THEN RejectExec(c, "cat-file", out.error)
          ELSE IF calls[c].object_type \notin DOMAIN TYPE_MAP
          THEN calls' = [calls EXCEPT ![c].execs = Append(@, "cat-file"),
                                      ![c].pc = "rejected", ![c].error = "Error",
                                      ![c].size = ParseInt(Trim(out.value))]
          ELSE calls' = [calls EXCEPT ![c].execs = Append(@, "cat-file"),
                                      ![c].pc = "statGitRoot",
                                      ![c].size = ParseInt(Trim(out.value))]
    /\ UNCHANGED <<ptVars, worldVars, written, watchVars>>

\* stat: await getGitRootForFile(local_path)
StatGitRoot(c) ==
    /\ calls[c].op = "stat" /\ calls[c].pc = "statGitRoot"
    /\ LET root == getGitRootForFile(calls[c].local_path)
       IN IF ~root.ok
          THEN IF fsStat(calls[c].local_path).ok
               THEN RejectExec(c, "rev-parse", root.error)
               ELSE Reject(c, root.error)
          ELSE calls' = [calls EXCEPT ![c].execs = Append(@, "rev-parse"), ![c].pc = "statIndex", ![c].git_root = root.value]
    /\ UNCHANGED <<ptVars, worldVars, written, watchVars>>

\* stat: await fs.stat(path.join(root, '.git', 'index')), then the result
StatIndex(c) ==
    /\ calls[c].op = "stat" /\ calls[c].pc = "statIndex"
    /\ LET stat == fsStatIndex(join(<<calls[c].git_root, <<".", "g", "i", "t">>,
                                      <<"i", "n", "d", "e", "x">>>>))
       IN IF ~stat.ok THEN Reject(c, stat.error)
          ELSE calls' = [calls EXCEPT
                   ![c].pc = "returned",
                   ![c].stat = [type |-> TYPE_MAP[calls[c].object_type],
                                ctime |-> 0,
                                mtime |-> stat.value,
                                size |-> calls[c].size]]
    /\ UNCHANGED <<ptVars, worldVars, written, watchVars>>

\* readDirectory's map callback on one line of the output: console.assert
\* logs and goes on, and a type TYPE_MAP lacks comes out undefined
DirectoryEntry(entry) ==
    LET fields == SplitOn(entry, NUL)
    IN [name |-> fields[1],
        type |-> IF Len(fields) >= 2 /\ fields[2] \in DOMAIN TYPE_MAP
                 THEN TYPE_MAP[fields[2]] ELSE "undefined"]

\* readDirectory: await execFile('git', ['ls-files', ...]), then the split
\* and the map
ReadDirectoryLsFiles(c) ==
    /\ calls[c].op = "readDirectory" /\ calls[c].pc = "lsFilesGlob"
    /\ LET out == gitLsFilesGlob(Cwd(c), calls[c].local_path)
           entries == SplitOn(out.value, "\n")
       IN IF ~out.ok THEN RejectExec(c, "ls-files", out.error)
          ELSE calls' = [calls EXCEPT
                   ![c].execs = Append(@, "ls-files"),
                   ![c].pc = "returned",
                   ![c].listing = [k \in 1..Len(entries) |-> DirectoryEntry(entries[k])]]
    /\ UNCHANGED <<ptVars, worldVars, written, watchVars>>

\* readFile: await execFile('git', [..., 'ls-files', ...]), then the split
ReadLsFiles(c) ==
    /\ calls[c].op = "readFile" /\ calls[c].pc = "lsFiles"
    /\ LET out == gitLsFiles(Cwd(c), calls[c].local_path, <<"%(objectname)">>)
           object_ids == SplitOn(Trim(out.value), "\n")
       IN IF ~out.ok THEN RejectExec(c, "ls-files", out.error)
          ELSE IF object_ids[1] = <<>> THEN calls' = [calls EXCEPT ![c].execs = Append(@, "ls-files"),
                                      ![c].pc = "fsReadFile"]
          ELSE calls' = [calls EXCEPT ![c].execs = Append(@, "ls-files"),
                                      ![c].warned = Len(object_ids) > 1,
                                      ![c].pc = "catFileBlob",
                                      ![c].object_id = object_ids[1]]
    /\ UNCHANGED <<ptVars, worldVars, written, watchVars>>

\* readFile: nothing staged, await fs.readFile(local_path)
ReadFsReadFile(c) ==
    /\ calls[c].op = "readFile" /\ calls[c].pc = "fsReadFile"
    /\ LET file == fsReadFile(calls[c].local_path)
       IN IF file.ok THEN calls' = [calls EXCEPT ![c].pc = "returned",
                                                 ![c].bytes = file.value]
          ELSE IF file.error = "ENOENT" THEN Reject(c, "FileNotFound")
          ELSE Reject(c, file.error)
    /\ UNCHANGED <<ptVars, worldVars, written, watchVars>>

\* a cat-file that writes the blob it printed back to the object store of
\* the second repository
ReadCatFileBlobStores(c) ==
    /\ calls[c].op = "readFile" /\ calls[c].pc = "catFileBlob"
    /\ LET out == gitCatFileBlob(Cwd(c), calls[c].object_id)
       IN IF ~out.ok THEN RejectExec(c, "cat-file", out.error) /\ UNCHANGED objects
          ELSE /\ calls' = [calls EXCEPT ![c].execs = Append(@, "cat-file"),
                                         ![c].pc = "returned",
                                         ![c].bytes = out.value]
               /\ objects' = [objects EXCEPT ![RootQ] = StoreBlob(@, out.value)]
    /\ UNCHANGED <<ptVars, worktree, index, indexMtime, written, watchVars>>

\* readFile: await execFile('git', ['cat-file', 'blob', object_id])
ReadCatFileBlob(c) ==
    /\ calls[c].op = "readFile" /\ calls[c].pc = "catFileBlob"
    /\ LET out == gitCatFileBlob(Cwd(c), calls[c].object_id)
       IN IF ~out.ok THEN RejectExec(c, "cat-file", out.error)
          ELSE calls' = [calls EXCEPT ![c].execs = Append(@, "cat-file"),
                                      ![c].pc = "returned",
                                      ![c].bytes = out.value]
    /\ UNCHANGED <<ptVars, worldVars, written, watchVars>>

\* writeFile: await the hash-object fed with content, then the trim
WriteHashObject(c) ==
    /\ calls[c].op = "writeFile" /\ calls[c].pc = "hashObject"
    /\ LET out == gitHashObject(Cwd(c), calls[c].content)
       IN IF ~out.ok
          THEN RejectExec(c, "hash-object", out.error) /\ UNCHANGED objects
          ELSE /\ objects' = [objects EXCEPT ![Toplevel(Cwd(c))] =
                                 StoreBlob(@, calls[c].content)]
               /\ calls' = [calls EXCEPT ![c].execs = Append(@, "hash-object"),
                                      ![c].pc = "lsFilesMode",
                                         ![c].object_id = Trim(out.value)]
    /\ UNCHANGED <<ptVars, worktree, index, indexMtime, written, watchVars>>

\* a writeFile that rejects when it would create an entry without
\* options.create or replace one without options.overwrite
WriteLsFilesModeByOptions(c) ==
    /\ calls[c].op = "writeFile" /\ calls[c].pc = "lsFilesMode"
    /\ LET out == gitLsFiles(Cwd(c), calls[c].local_path, <<"%(objectmode)">>)
           existing_mode == Trim(out.value)
       IN IF ~out.ok THEN RejectExec(c, "ls-files", out.error)
          ELSE IF existing_mode # <<>> /\ ~calls[c].options.overwrite
          THEN Reject(c, "FileExists")
          ELSE IF existing_mode = <<>> /\ ~calls[c].options.create
          THEN Reject(c, "FileNotFound")
          ELSE IF existing_mode # <<>>
          THEN calls' = [calls EXCEPT ![c].execs = Append(@, "ls-files"),
                                      ![c].pc = "writeGitRoot",
                                      ![c].mode = existing_mode,
                                      ![c].add_flag = FALSE]
          ELSE calls' = [calls EXCEPT ![c].execs = Append(@, "ls-files"),
                                      ![c].pc = "fsStatMode", ![c].add_flag = TRUE]
    /\ UNCHANGED <<ptVars, worldVars, written, watchVars>>

\* writeFile: await execFile('git', [..., 'ls-files', '--format=%(objectmode)',
\* local_path]), then the trim and the choice of mode and flag
WriteLsFilesMode(c) ==
    /\ calls[c].op = "writeFile" /\ calls[c].pc = "lsFilesMode"
    /\ LET out == gitLsFiles(Cwd(c), calls[c].local_path, <<"%(objectmode)">>)
           existing_mode == Trim(out.value)
       IN IF ~out.ok THEN RejectExec(c, "ls-files", out.error)
          ELSE IF existing_mode # <<>>
          THEN calls' = [calls EXCEPT ![c].execs = Append(@, "ls-files"),
                                      ![c].pc = "writeGitRoot",
                                      ![c].mode = existing_mode,
                                      ![c].add_flag = FALSE]
          ELSE calls' = [calls EXCEPT ![c].execs = Append(@, "ls-files"),
                                      ![c].pc = "fsStatMode", ![c].add_flag = TRUE]
    /\ UNCHANGED <<ptVars, worldVars, written, watchVars>>

\* writeFile: nothing staged, await fs.stat(local_path) for the mode
WriteFsStat(c) ==
    /\ calls[c].op = "writeFile" /\ calls[c].pc = "fsStatMode"
    /\ LET stat == fsStat(calls[c].local_path)
       IN IF ~stat.ok THEN Reject(c, stat.error)
          ELSE calls' = [calls EXCEPT ![c].pc = "writeGitRoot",
                                      ![c].mode = ToString8(stat.mode)]
    /\ UNCHANGED <<ptVars, worldVars, written, watchVars>>

\* writeFile: await getGitRootForFile(local_path), then path.relative
WriteGitRoot(c) ==
    /\ calls[c].op = "writeFile" /\ calls[c].pc = "writeGitRoot"
    /\ LET root == getGitRootForFile(calls[c].local_path)
       IN IF ~root.ok
          THEN IF fsStat(calls[c].local_path).ok
               THEN RejectExec(c, "rev-parse", root.error)
               ELSE Reject(c, root.error)
          ELSE calls' = [calls EXCEPT ![c].execs = Append(@, "rev-parse"),
                   ![c].pc = "updateIndex",
                   ![c].git_root = root.value,
                   ![c].relative_path = relative(root.value, calls[c].local_path)]
    /\ UNCHANGED <<ptVars, worldVars, written, watchVars>>

\* the --cacheinfo argument: [mode, object_id, relative_path].join(',')
CacheInfo(c) ==
    JoinWith(<<calls[c].mode, calls[c].object_id, calls[c].relative_path>>, <<",">>)

\* writeFile: await execFile('git', ['update-index', ...add_flag,
\* '--cacheinfo', ...]). The update replaces the index file in one step; the
\* calls that run on the path it stages see the new bytes from then on
WriteUpdateIndex(c) ==
    /\ calls[c].op = "writeFile" /\ calls[c].pc = "updateIndex"
    /\ IF ~gitUpdateIndexOk(Cwd(c), calls[c].add_flag, CacheInfo(c))
       THEN RejectExec(c, "update-index", "ExecError")
            /\ UNCHANGED <<index, indexMtime, written, subs>>
       ELSE LET root == Toplevel(Cwd(c))
                target == root \o <<SLASH>> \o ParseCacheInfo(CacheInfo(c)).path
            IN /\ index' = gitUpdateIndex(Cwd(c), CacheInfo(c))
               /\ subs' = [i \in SubIds |-> IF i \in ResolvedLive(root)
                                             THEN [subs[i] EXCEPT !.owed = TRUE]
                                             ELSE subs[i]]
               /\ indexMtime' = [indexMtime EXCEPT ![root] = @ + 1]
               /\ written' = [p \in DOMAIN written |->
                                 IF p = target
                                 THEN [defined |-> TRUE, bytes |-> calls[c].content]
                                 ELSE written[p]]
               /\ calls' = [k \in CallIds |->
                               IF k = c
                               THEN [calls[c] EXCEPT !.pc = "returned",
                                                     !.execs = Append(@, "update-index")]
                               ELSE IF calls[k].op # "none" /\ ~Finished(k)
                                       /\ calls[k].local_path = target
                               THEN [calls[k] EXCEPT !.seen = @ \cup {calls[c].content}]
                               ELSE calls[k]]
    /\ UNCHANGED <<ptVars, worktree, objects, registry, watchers, notes, fanout>>

FsNext ==
    \/ \E c \in CallIds, uri \in FsUris : Call(c, "stat", uri, <<>>)
    \/ \E c \in CallIds, uri \in FsUris : Call(c, "readFile", uri, <<>>)
    \/ \E c \in CallIds, uri \in FsUris, content \in Contents :
          Call(c, "writeFile", uri, content)
    \/ \E c \in CallIds : StatLsFiles(c)
    \/ \E c \in CallIds : StatFsStat(c)
    \/ \E c \in CallIds : StatCatFileSize(c)
    \/ \E c \in CallIds : StatGitRoot(c)
    \/ \E c \in CallIds : StatIndex(c)
    \/ \E c \in CallIds : ReadLsFiles(c)
    \/ \E c \in CallIds : ReadFsReadFile(c)
    \/ \E c \in CallIds : ReadCatFileBlob(c)
    \/ \E c \in CallIds : WriteHashObject(c)
    \/ \E c \in CallIds : WriteLsFilesMode(c)
    \/ \E c \in CallIds : WriteFsStat(c)
    \/ \E c \in CallIds : WriteGitRoot(c)
    \/ \E c \in CallIds : WriteUpdateIndex(c)

\* the methods that are not implemented
UnsupportedOps == {"createDirectory", "delete", "rename", "copy"}

\* the URIs they are called with: one the translator takes and one it does not
UnsupportedUris ==
    {Virtual(RootR \o <<SLASH>> \o PREFIX_DIR \o <<SLASH, "a">>),
     Virtual(RootR \o <<SLASH, "a">>)}

\* a delete that takes the entries of the path out of the index
UnsupportedButDelete(c, op, uri) ==
    /\ calls[c].op = "none" \/ Finished(c)
    /\ calls' = [calls EXCEPT ![c] =
           [NoCall EXCEPT !.op = op, !.uri = uri,
                          !.pc = IF op = "delete" THEN "returned" ELSE "rejected",
                          !.error = IF op = "delete" THEN "" ELSE "Error"]]
    /\ index' = IF op = "delete" THEN index \ StagedAt(LocalPathOf[uri].value) ELSE index
    /\ UNCHANGED <<ptVars, worktree, indexMtime, objects, written, watchVars>>

\* createDirectory(uri), delete(uri, options), rename(oldUri, newUri,
\* options) and copy(source, destination, options): trace, then throw. They
\* are synchronous and may be called while another call is at an await
Unsupported(c, op, uri) ==
    /\ calls[c].op = "none" \/ Finished(c)
    /\ calls' = [calls EXCEPT ![c] = [NoCall EXCEPT !.op = op, !.uri = uri,
                                                     !.pc = "rejected", !.error = "Error"]]
    /\ UNCHANGED <<ptVars, worldVars, written, watchVars>>

\* the slot of the calls that are made one at a time
OneAtATime == {c \in CallIds : \A k \in CallIds : c <= k}

\* every method of the provider, each call made after the one before it has
\* settled
ProviderNext ==
    \/ \E c \in OneAtATime, uri \in MalformedUris : Call(c, "watch", uri, <<>>)
    \/ \E i \in SubIds : DisposeWatch(i)
    \/ \E w \in SubIds : WatcherLoopAborted(w)
    \/ \E c \in OneAtATime, uri \in ProviderUris \cup MalformedUris :
          Call(c, "stat", uri, <<>>)
    \/ \E c \in OneAtATime, uri \in ProviderUris \cup MalformedUris :
          Call(c, "readDirectory", uri, <<>>)
    \/ \E c \in OneAtATime, uri \in ProviderUris \cup MalformedUris :
          Call(c, "readFile", uri, <<>>)
    \/ \E c \in OneAtATime, uri \in ProviderUris \cup MalformedUris, content \in Contents :
          Call(c, "writeFile", uri, content)
    \/ \E c \in CallIds \ OneAtATime, op \in UnsupportedOps, uri \in UnsupportedUris :
          Unsupported(c, op, uri)
    \/ \E c \in OneAtATime : StatLsFiles(c)
    \/ \E c \in OneAtATime : StatFsStat(c)
    \/ \E c \in OneAtATime : StatCatFileSize(c)
    \/ \E c \in OneAtATime : StatGitRoot(c)
    \/ \E c \in OneAtATime : StatIndex(c)
    \/ \E c \in OneAtATime : ReadDirectoryLsFiles(c)
    \/ \E c \in OneAtATime : ReadLsFiles(c)
    \/ \E c \in OneAtATime : ReadFsReadFile(c)
    \/ \E c \in OneAtATime : ReadCatFileBlob(c)
    \/ \E c \in OneAtATime : WriteHashObject(c)
    \/ \E c \in OneAtATime : WriteLsFilesMode(c)
    \/ \E c \in OneAtATime : WriteFsStat(c)
    \/ \E c \in OneAtATime : WriteGitRoot(c)
    \/ \E c \in OneAtATime : WriteUpdateIndex(c)

\* writeFile alone, called with every URI, content and pair of options, each
\* call made after the one before it has settled
WriteNext ==
    \/ \E c \in OneAtATime, uri \in ProviderUris \cup MalformedUris, content \in Contents,
             options \in WriteOptions :
          CallWith(c, "writeFile", uri, content, options)
    \/ \E c \in OneAtATime : WriteHashObject(c)
    \/ \E c \in OneAtATime : WriteLsFilesMode(c)
    \/ \E c \in OneAtATime : WriteFsStat(c)
    \/ \E c \in OneAtATime : WriteGitRoot(c)
    \/ \E c \in OneAtATime : WriteUpdateIndex(c)

\* the virtual URIs watched while a write is made: a file of the first
\* repository, and c, which the working tree lacks
NotifyWatchUris ==
    {Virtual(RootR \o <<SLASH>> \o PREFIX_DIR \o <<SLASH, "a">>),
     Virtual(RootR \o <<SLASH>> \o PREFIX_DIR \o <<SLASH, "c">>)}

\* the virtual URI written to meanwhile, an untracked file, and the bytes
NotifyUris == {Virtual(RootR \o <<SLASH>> \o PREFIX_DIR \o <<SLASH, "b">>)}

NotifyContents == {<<"x">>}

\* watch calls, their disposal, writeFile calls made one at a time, the
\* notifications of the index updates they make, and the watchers' loops
NotifyNext ==
    \/ \E i \in SubIds, uri \in NotifyWatchUris : Watch(i, uri)
    \/ \E i \in SubIds : WatchResolved(i)
    \/ \E i \in SubIds : WatchRejected(i)
    \/ \E i \in SubIds : DisposeWatch(i)
    \/ \E c \in OneAtATime, uri \in NotifyUris, content \in NotifyContents :
          Call(c, "writeFile", uri, content)
    \/ \E c \in OneAtATime : WriteHashObject(c)
    \/ \E c \in OneAtATime : WriteLsFilesMode(c)
    \/ \E c \in OneAtATime : WriteFsStat(c)
    \/ \E c \in OneAtATime : WriteGitRoot(c)
    \/ \E c \in OneAtATime : WriteUpdateIndex(c)
    \/ \E w \in SubIds : IndexChangeNotified(w)
    \/ \E w \in SubIds, h, d \in SubIds \cup {0} : WatcherEvent(w, h, d)
    \/ \E w \in SubIds : WatcherLoopAborted(w)

\* the OS delivers the notification of a change of a watched index file, and
\* a watcher's loop that has an event to take is scheduled
NotifyFair ==
    \A w \in SubIds :
        /\ WF_vars(IndexChangeNotified(w))
        /\ WF_vars(\E h, d \in SubIds \cup {0} : WatcherEvent(w, h, d))

\* the fs.stat and the rev-parse of a root resolution in flight come to an
\* end, and the continuation of the watch call runs
ResolveFair ==
    WF_vars(\E i \in SubIds : WatchResolved(i) \/ WatchRejected(i))

----------------------------------------------------------------------------
(* Specifications *)

\* no repository has anything staged and no call is in flight
FsIdle ==
    /\ index = {}
    /\ indexMtime = [r \in Repos |-> IndexMtimeBefore]
    /\ objects = [r \in Repos |-> {}]
    /\ calls = [c \in CallIds |-> NoCall]
    /\ written = [p \in FsLocalPaths |-> [defined |-> FALSE, bytes |-> <<>>]]

WatchIdle ==
    /\ subs = [i \in SubIds |-> NoSub]
    /\ registry = [r \in Repos |-> 0]
    /\ watchers = [w \in SubIds |-> NoWatcher]
    /\ notes = [w \in SubIds |-> 0]
    /\ fanout = NoFanout

\* the path translator alone
PtInit == pt = PtIdle /\ worktree = WatchWorktree /\ FsIdle /\ WatchIdle

SpecPath == PtInit /\ [][PtNext]_vars

\* watch, its disposal and the watchers
WatchInit == pt = PtIdle /\ worktree = WatchWorktree /\ FsIdle /\ WatchIdle

SpecWatch == WatchInit /\ [][WatchNext]_vars

\* a watcher alone: `new GitIndexWatcher(git_root)` has returned for the
\* first repository and for the second, and no listener was given to either
WatcherInit ==
    /\ pt = PtIdle /\ worktree = WatchWorktree /\ FsIdle
    /\ subs = [i \in SubIds |-> NoSub]
    /\ registry = [r \in Repos |-> 0]
    /\ watchers = [w \in SubIds |->
                     IF w \in {1, 2}
                     THEN [NoWatcher EXCEPT !.exists = TRUE, !.loop = "running",
                                            !.git_root = IF w = 1 THEN RootR ELSE RootQ]
                     ELSE NoWatcher]
    /\ notes = [w \in SubIds |-> 0]
    /\ fanout = NoFanout

SpecWatcher == WatcherInit /\ [][WatcherNext]_vars

\* the file calls start with the entries staged, their blob stored and no
\* call made
FsInit ==
    /\ pt = PtIdle
    /\ worktree = FsWorktree
    /\ index = StagedBefore
    /\ indexMtime = [r \in Repos |-> IndexMtimeBefore]
    /\ objects = [r \in Repos |-> IF r = RootR THEN {<<"\n">>} ELSE {}]
    /\ calls = [c \in CallIds |-> NoCall]
    /\ written = [p \in FsLocalPaths |-> [defined |-> FALSE, bytes |-> <<>>]]
    /\ WatchIdle

SpecFS == FsInit /\ [][FsNext]_vars

\* writes under watch: the entries staged, their blob stored, no call made
\* and no watch asked for
NotifyInit ==
    /\ pt = PtIdle
    /\ worktree = FsWorktree
    /\ index = StagedBefore
    /\ indexMtime = [r \in Repos |-> IndexMtimeBefore]
    /\ objects = [r \in Repos |-> IF r = RootR THEN {<<"\n">>} ELSE {}]
    /\ calls = [c \in CallIds |-> NoCall]
    /\ written = [p \in FsLocalPaths |-> [defined |-> FALSE, bytes |-> <<>>]]
    /\ WatchIdle

SpecNotify == NotifyInit /\ [][NotifyNext]_vars /\ NotifyFair

\* the same calls, with every root resolution coming to its end
SpecRegister == NotifyInit /\ [][NotifyNext]_vars /\ ResolveFair

\* one watch call has resolved: its listener is registered with the watcher
\* of the first repository
OneWatching ==
    /\ subs = [i \in SubIds |->
                 IF i = 1
                 THEN [NoSub EXCEPT
                          !.called = TRUE,
                          !.uri = Virtual(RootR \o <<SLASH>> \o PREFIX_DIR \o <<SLASH, "a">>),
                          !.local_path = RootR \o <<SLASH, "a">>,
                          !.resolution = "fulfilled", !.git_root = RootR, !.listener = 1]
                 ELSE NoSub]
    /\ registry = [r \in Repos |-> IF r = RootR THEN 1 ELSE 0]
    /\ watchers = [w \in SubIds |->
                     IF w = 1 THEN [exists |-> TRUE, git_root |-> RootR, listeners |-> <<1>>,
                                    aborted |-> FALSE, loop |-> "running",
                                    notified |-> IndexMtimeBefore, caught |-> ""]
                     ELSE NoWatcher]
    /\ notes = [w \in SubIds |-> 0]
    /\ fanout = NoFanout

\* the provider is called in the middle of a merge, with the blobs of the
\* index stored and one watch in place
ProviderInit ==
    /\ pt = PtIdle
    /\ worktree = ProviderWorktree
    /\ index = ProviderStaged
    /\ indexMtime = [r \in Repos |-> IndexMtimeBefore]
    /\ objects = [r \in Repos |-> IF r = RootR THEN {<<>>, <<"\n">>, <<"x">>} ELSE {}]
    /\ calls = [c \in CallIds |-> NoCall]
    /\ written = [p \in FsLocalPaths |-> [defined |-> FALSE, bytes |-> <<>>]]
    /\ OneWatching

SpecProvider == ProviderInit /\ [][ProviderNext]_vars

\* writeFile called with every pair of options, from the same start
SpecWrite == ProviderInit /\ [][WriteNext]_vars


----------------------------------------------------------------------------
(* Claims about the path translator (SpecPath) *)

\* an absolute path in normal form: it begins with the separator, is not the
\* root, and has no empty, "." or ".." segment (so no trailing separator)
NormalAbsolute(path) ==
    /\ Len(path) > 1
    /\ path[1] = SLASH
    /\ LET segs == Segments(SubSeq(path, 2, Len(path)))
       IN \A i \in 1..Len(segs) : segs[i] \notin {<<>>, <<".">>, <<".", ".">>}

\* a valid local URI: file scheme, empty query and fragment
ValidLocal(uri) == uri.scheme = "file" /\ uri.query = <<>> /\ uri.fragment = <<>>

\* the marker segment immediately precedes the final path component
MarkerBeforeFinal(path) ==
    LET comps == SelectSeq(Segments(path), LAMBDA seg : seg # <<>>)
    IN Len(comps) >= 2 /\ comps[Len(comps) - 1] = PREFIX_DIR

\* a valid virtual URI: provider scheme, empty query and fragment, marker
\* placed before the final component
ValidVirtual(uri) ==
    /\ uri.scheme = SCHEME /\ uri.query = <<>> /\ uri.fragment = <<>>
    /\ MarkerBeforeFinal(uri.path)

\* C9 as stated: for every valid local URI u, the root path and paths with a
\* trailing separator included, toLocalPath(fromLocalPath(u)) succeeds and
\* equals u's local filesystem path.
C9_RoundTripAnyLocal ==
    /\ pt.phase \in {"fromLocal", "roundLocal"} /\ ValidLocal(pt.u) => pt.v.ok
    /\ pt.phase = "roundLocal" /\ ValidLocal(pt.u)
          => pt.local.ok /\ pt.local.value = fsPath(pt.u)

\* C9 amended: for every valid local URI u whose path is absolute and in normal
\* form (not the root; no empty, "." or ".." segment; no trailing separator),
\* toLocalPath(fromLocalPath(u)) succeeds and equals u's local filesystem path.
C9_RoundTripNormalLocal ==
    /\ pt.phase \in {"fromLocal", "roundLocal"} /\ ValidLocal(pt.u)
          /\ NormalAbsolute(pt.u.path) => pt.v.ok
    /\ pt.phase = "roundLocal" /\ ValidLocal(pt.u) /\ NormalAbsolute(pt.u.path)
          => pt.local.ok /\ pt.local.value = fsPath(pt.u)

\* a normal-form local URI with an authority and a directory went round
C9_Witness ==
    /\ pt.phase = "roundLocal"
    /\ ValidLocal(pt.u) /\ NormalAbsolute(pt.u.path)
    /\ pt.u.authority # <<>>
    /\ Len(Segments(pt.u.path)) >= 3
    /\ pt.local.ok /\ pt.local.value = fsPath(pt.u)

----------------------------------------------------------------------------
(* Claims about watch and the watcher registry (SpecWatch) *)

\* the watchers constructed for root and not disposed
LiveWatchers(root) ==
    {w \in SubIds : watchers[w].exists /\ ~watchers[w].aborted
                    /\ watchers[w].git_root = root}

\* C2: in every reachable state there is at most one live (undisposed) watcher
\* per repository root, and it is the one the registry holds; resolved watch
\* calls under one root share it; once all of them are disposed the root has
\* no watcher.
C2_OneWatcherPerRoot ==
    \A root \in Repos :
       /\ Cardinality(LiveWatchers(root)) <= 1
       /\ LiveWatchers(root) = IF registry[root] = 0 THEN {} ELSE {registry[root]}
       /\ \A i \in ResolvedLive(root) : subs[i].listener = registry[root]
       /\ ResolvedLive(root) = {} => LiveWatchers(root) = {}

\* two resolved watch calls on different URIs of one root share one watcher
C2_Witness ==
    \E i, j \in SubIds :
       /\ i # j /\ subs[i].uri # subs[j].uri
       /\ i \in ResolvedLive(RootR) /\ j \in ResolvedLive(RootR)
       /\ subs[i].listener = subs[j].listener
       /\ LiveWatchers(RootR) = {subs[i].listener}

\* C3: between provider steps the registry holds a watcher for a root exactly
\* when a resolved, not yet disposed watch call exists for it; a registered
\* watcher's listeners are those calls' (so it has at least one), and every
\* watcher that left the registry is disposed.
C3_WatcherIffSubscriber ==
    /\ \A root \in Repos :
          /\ registry[root] # 0 <=> ResolvedLive(root) # {}
          /\ registry[root] # 0 =>
                /\ watchers[registry[root]].exists
                /\ ~watchers[registry[root]].aborted
                /\ hasListener(watchers[registry[root]].listeners)
                /\ Members(watchers[registry[root]].listeners) = ResolvedLive(root)
    /\ \A w \in SubIds :
          watchers[w].exists /\ registry[watchers[w].git_root] # w
             => watchers[w].aborted /\ watchers[w].listeners = <<>>

\* a watcher was created, lost its last listener and was disposed, while the
\* other root keeps its watcher
C3_Witness ==
    /\ \E w \in SubIds : watchers[w].exists /\ watchers[w].aborted
                         /\ watchers[w].git_root = RootR
    /\ registry[RootR] = 0
    /\ registry[RootQ] # 0

\* how many events of a fan-out satisfy a test
CountFired(Test(_)) ==
    Cardinality({k \in 1..Len(fanout.fired) : Test(fanout.fired[k])})

\* C4 as stated: one notification of the index file of root R fires exactly
\* one Changed event per distinct virtual URI watched under R, carrying that
\* URI, and none for URIs watched under another root.
C4_OneEventPerUri ==
    fanout.happened /\ ~fanout.aborted =>
       /\ \A uri \in WatchUris :
             CountFired(LAMBDA e : e.uri = uri) =
                IF \E i \in fanout.resolved : subs[i].uri = uri THEN 1 ELSE 0
       /\ \A k \in 1..Len(fanout.fired) : fanout.fired[k].type = "Changed"

\* the watch calls whose listener a handler of the fan-out took out of the
\* set before the loop came to it
PassedOver ==
    {i \in SubIds : /\ i = fanout.disposed
                    /\ PlaceIn(fanout.received, fanout.handler) # 0
                    /\ PlaceIn(fanout.received, i) > PlaceIn(fanout.received, fanout.handler)}

\* C4 amended: one notification taken by the live watcher of root R fires
\* exactly one Changed event per watch call registered under R (resolved to R,
\* not disposed) whose listener is still in the set when the loop comes to it,
\* carrying the URI given to that call, so a URI watched by several calls gets
\* one event per call; it fires none for calls under another root, and a
\* watcher already disposed fires none at all.
C4_OneEventPerSubscription ==
    fanout.happened =>
       /\ \A i \in SubIds :
             CountFired(LAMBDA e : e.sub = i) =
                IF ~fanout.aborted /\ i \in fanout.resolved \ PassedOver THEN 1 ELSE 0
       /\ \A k \in 1..Len(fanout.fired) :
             /\ fanout.fired[k].type = "Changed"
             /\ fanout.fired[k].uri = subs[fanout.fired[k].sub].uri
             /\ subs[fanout.fired[k].sub].git_root = fanout.git_root

\* a notification reached two watch calls of one root while a third call
\* under the other root got nothing
C4_Witness ==
    /\ fanout.happened /\ ~fanout.aborted
    /\ Len(fanout.fired) = 2
    /\ fanout.fired[1].uri # fanout.fired[2].uri
    /\ \E i \in SubIds : /\ subs[i].resolution = "fulfilled" /\ ~subs[i].disposed
                         /\ subs[i].git_root # fanout.git_root

----------------------------------------------------------------------------
(* Claims about stat, readFile and writeFile (SpecFS) *)

\* how a finished call ended, as readFile's caller sees it
Outcome(c) ==
    [ok |-> calls[c].pc = "returned", error |-> calls[c].error, bytes |-> calls[c].bytes]

\* the call c is one of op that has returned or rejected
Done(c, op) == calls[c].op = op /\ Finished(c)

\* the call's URI was one toLocalPath translates
Translated(c) == calls[c].op # "none" /\ LocalPathOf[calls[c].uri].ok

\* the entries that were staged at exactly the call's local path when it began
EntriesOfPath(c) ==
    {e \in calls[c].staged : e.root \o <<SLASH>> \o e.path = calls[c].local_path}

\* the index entry now recorded for the call's local path
EntryNow(c) ==
    {e \in index : e.root \o <<SLASH>> \o e.path = calls[c].local_path}

C5_WriteChoosesMode ==
    \A c \in CallIds :
        (Done(c, "writeFile") /\ Translated(c) /\ calls[c].seen = {})
            => /\ EntriesOfPath(c) # {}
                  => /\ calls[c].pc = "returned"
                     /\ ~calls[c].add_flag
                     /\ \A e \in EntriesOfPath(c) :
                           EntryNow(c) = {[e EXCEPT !.oid = ObjectName(calls[c].content)]}
               /\ (calls[c].staged = {} /\ fsStat(calls[c].local_path).isFile)
                  => /\ calls[c].pc = "returned"
                     /\ calls[c].add_flag
                     /\ calls[c].mode = ToString8(fsStat(calls[c].local_path).mode)

\* a write on a path that is staged and has no working-tree file has stored
\* its blob and then failed with ENOENT, the entry left as it was
C5_Witness ==
    \E c \in CallIds :
        /\ Done(c, "writeFile") /\ calls[c].seen = {}
        /\ EntriesOfPath(c) # {} /\ ~fsStat(calls[c].local_path).ok
        /\ calls[c].pc = "rejected" /\ calls[c].error = "ENOENT"
        /\ calls[c].content \in objects[RootR]
        /\ EntryNow(c) = EntriesOfPath(c)

\* C6: a readFile, whatever writes of its path run alongside it and however
\* their git commands interleave, ends as a read would have ended when it
\* began, or returns exactly the bytes one of those writes staged
C6_ReadSeesOldOrNew ==
    \A c \in CallIds :
        Done(c, "readFile")
            => \/ Outcome(c) = calls[c].old
               \/ calls[c].pc = "returned" /\ calls[c].bytes \in calls[c].seen

\* a read during which a write staged other bytes at its path has returned
\* the new bytes
C6_Witness ==
    \E c \in CallIds :
        /\ Done(c, "readFile") /\ calls[c].pc = "returned"
        /\ calls[c].seen # {}
        /\ calls[c].old.ok /\ calls[c].old.bytes \notin calls[c].seen
        /\ calls[c].bytes \in calls[c].seen

\* C7: with no entry staged at the local path and a file there in the working
\* tree, stat returns that file's type, size and times and, if it is a
\* regular file, readFile returns its bytes
C7_WorkingTreeFallback ==
    \A c \in CallIds :
        (Finished(c) /\ Translated(c) /\ calls[c].seen = {} /\ EntriesOfPath(c) = {}
         /\ fsStat(calls[c].local_path).ok)
            => LET file == fsStat(calls[c].local_path)
               IN /\ calls[c].op = "stat"
                     => /\ calls[c].pc = "returned"
                        /\ calls[c].stat = [type |-> IF file.isFile THEN "File"
                                                     ELSE "Directory",
                                            ctime |-> file.ctimeMs,
                                            mtime |-> file.mtimeMs,
                                            size |-> file.size]
                  /\ (calls[c].op = "readFile" /\ file.isFile)
                     => /\ calls[c].pc = "returned"
                        /\ calls[c].bytes = fsReadFile(calls[c].local_path).value

\* a stat of a working-tree directory that has no entry of its own, and a
\* file staged beneath it, has returned the type File
C7_Witness ==
    \E c \in CallIds :
        /\ Done(c, "stat") /\ calls[c].seen = {}
        /\ EntriesOfPath(c) = {} /\ fsStat(calls[c].local_path).isDirectory
        /\ calls[c].pc = "returned" /\ calls[c].stat.type = "File"
        /\ calls[c].stat.ctime = 0

\* C8: with nothing staged at the local path and no file there in the working
\* tree, stat and readFile fail with FileNotFound
C8_NeitherIsFileNotFound ==
    \A c \in CallIds :
        (Finished(c) /\ Translated(c) /\ calls[c].op \in {"stat", "readFile"}
         /\ calls[c].seen = {} /\ calls[c].staged = {}
         /\ ~fsStat(calls[c].local_path).ok)
            => calls[c].pc = "rejected" /\ calls[c].error = "FileNotFound"

\* a readFile of a path with nothing staged, in a directory the working tree
\* does not have, has failed with an error that is not FileNotFound
C8_Witness ==
    \E c \in CallIds :
        /\ Done(c, "readFile") /\ Translated(c)
        /\ calls[c].seen = {} /\ calls[c].staged = {}
        /\ ~fsStat(calls[c].local_path).ok
        /\ calls[c].pc = "rejected" /\ calls[c].error # "FileNotFound"

\* C15: a watch call hands back its disposable while its root resolution is
\* in flight; when that disposable is disposed first, the resolution that
\* arrives later registers no listener, makes and reuses no watcher, leaves
\* the registry and every listener set as they were, and the call's URI is
\* never in a fan-out
C15_LateResolutionIsNoOp ==
    [][\A i \in SubIds :
          /\ (/\ subs[i].resolution = "inflight" /\ subs[i].disposed
              /\ subs'[i].resolution # "inflight")
                => /\ subs'[i].listener = 0
                   /\ UNCHANGED <<registry, watchers, notes, fanout>>
          /\ (subs'[i].disposed /\ subs'[i].listener = 0)
                => \A k \in 1..Len(fanout'.fired) : fanout'.fired[k].sub # i]_vars

\* a watch call was disposed, its resolution arrived after that and
\* registered nothing, and a later event of the same root fired for another
\* call only
C15_Witness ==
    \E i \in SubIds :
        /\ subs[i].disposed /\ subs[i].resolution = "fulfilled"
        /\ subs[i].git_root = RootR /\ subs[i].listener = 0
        /\ fanout.happened /\ fanout.git_root = RootR /\ Len(fanout.fired) > 0

\* C16: in the fan-out of one event the watcher calls exactly the listeners
\* that were in its set when it took the event, in their order, whatever a
\* handler adds to or removes from the set meanwhile
C16_FanoutOverSnapshot ==
    fanout.happened =>
        [k \in 1..Len(fanout.fired) |-> fanout.fired[k].sub] = fanout.received

\* the watcher took an event with two listeners in its set; the handler of
\* the first one's event disposed the second watch, and the second listener
\* was not called
C16_Witness ==
    /\ fanout.happened /\ Len(fanout.received) = 2
    /\ fanout.handler = fanout.received[1] /\ fanout.disposed = fanout.received[2]
    /\ Len(fanout.fired) = 1 /\ fanout.fired[1].sub = fanout.received[1]

----------------------------------------------------------------------------
(* Claims about writes under watch (SpecNotify) *)

----------------------------------------------------------------------------
(* Claims about the provider's methods, called one at a time (SpecProvider) *)

\* the methods that begin with toLocalPath
TranslatingOps == {"watch", "stat", "readDirectory", "readFile", "writeFile"}

\* C11: a call of watch, stat, readDirectory, readFile or writeFile with a
\* URI of another scheme, with a query, with a fragment or without the marker
\* as the parent segment fails with the assertion's Error at once: it gets no
\* local path, runs no git command, and leaves the index, the object store,
\* the registry and the listener sets as they were
C11_MalformedFailsFirst ==
    [][\A c \in CallIds :
          (/\ calls'[c] # calls[c]
           /\ calls'[c].op \in TranslatingOps
           /\ ~ValidVirtual(calls'[c].uri))
             => /\ calls'[c].pc = "rejected" /\ calls'[c].error = "Error"
                /\ calls'[c].local_path = <<>> /\ calls'[c].execs = <<>>
                /\ UNCHANGED <<worldVars, watchVars>>]_vars

\* a writeFile with a query in its URI has been rejected with Error, no git
\* command run and nothing staged or stored
C11_Witness ==
    \E c \in CallIds :
        /\ Done(c, "writeFile") /\ calls[c].uri.query # <<>>
        /\ calls[c].pc = "rejected" /\ calls[c].error = "Error"
        /\ calls[c].execs = <<>>
        /\ index = ProviderStaged /\ registry[RootR] = 1

\* the entries staged directly in the directory a readDirectory was given,
\* in the order of the index
ChildEntries(c) ==
    SortEntries({e \in calls[c].staged :
                    GlobChildOf(e.root \o <<SLASH>> \o e.path, calls[c].local_path)})

\* C12: readDirectory returns exactly one (name, type) pair for each entry
\* staged directly in the local directory and nothing else, the empty list
\* when there is none; the name is the entry's final component and the type
\* File for a blob, Directory for a tree
C12_ListsImmediateChildren ==
    \A c \in CallIds :
        (/\ Done(c, "readDirectory") /\ calls[c].pc = "returned"
         /\ calls[c].staged = StagedAt(calls[c].local_path))
            => /\ Len(calls[c].listing) = Len(ChildEntries(c))
               /\ \A k \in 1..Len(ChildEntries(c)) :
                      /\ calls[c].listing[k].name = basename(ChildEntries(c)[k].path)
                      /\ ObjectType(ChildEntries(c)[k]) \in DOMAIN TYPE_MAP
                            => calls[c].listing[k].type =
                                  TYPE_MAP[ObjectType(ChildEntries(c)[k])]

\* a readDirectory of d, where a is staged, has returned a File named d/a
\* and, last, an element with the empty name and no type
C12_Witness ==
    \E c \in CallIds :
        /\ Done(c, "readDirectory") /\ calls[c].pc = "returned"
        /\ calls[c].local_path = RootR \o <<SLASH, "d">>
        /\ calls[c].staged = StagedAt(calls[c].local_path)
        /\ calls[c].listing[1] = [name |-> <<"d", SLASH, "a">>, type |-> "File"]
        /\ calls[c].listing[Len(calls[c].listing)] = [name |-> <<>>, type |-> "undefined"]

\* what stat is to return for the one entry e staged at the call's path: the
\* type of its object, the length of the stored blob of its name, ctime 0 and
\* the time of the index file of its repository
StagedStat(c, e) ==
    /\ calls[c].pc = "returned"
    /\ calls[c].stat.type = TYPE_MAP[ObjectType(e)]
    /\ \E blob \in objects[e.root] :
          ObjectName(blob) = e.oid /\ calls[c].stat.size = Len(blob)
    /\ calls[c].stat.ctime = 0
    /\ calls[c].stat.mtime = indexMtime[e.root]

\* C13: a stat of a path with a staged entry (a blob) succeeds whether or not
\* the working tree has a file there, with the type of the entry's object,
\* the size of its blob, ctime 0 and the index file's mtime
C13_StatOfStaged ==
    \A c \in CallIds :
        (/\ Done(c, "stat") /\ Translated(c) /\ calls[c].seen = {}
         /\ Cardinality(EntriesOfPath(c)) = 1)
            => \A e \in EntriesOfPath(c) :
                  ObjectType(e) \in DOMAIN TYPE_MAP => StagedStat(c, e)

\* a stat of the staged path c, which has no file in the working tree, has
\* run ls-files and cat-file and then failed with ENOENT
C13_Witness ==
    \E c \in CallIds :
        /\ Done(c, "stat") /\ calls[c].seen = {}
        /\ calls[c].local_path = RootR \o <<SLASH, "c">>
        /\ Cardinality(EntriesOfPath(c)) = 1
        /\ ~fsStat(calls[c].local_path).ok
        /\ calls[c].pc = "rejected" /\ calls[c].error = "ENOENT"
        /\ calls[c].execs = <<"ls-files", "cat-file">>

\* C14: a call of createDirectory, delete, rename or copy, whatever its URI
\* and whatever else is going on, fails with an Error, and leaves the index,
\* the object store, the working tree, the registry and the listener sets as
\* they were and fires no event
C14_UnsupportedOnlyFail ==
    [][\A c \in CallIds :
          (calls'[c] # calls[c] /\ calls'[c].op \in UnsupportedOps)
             => /\ calls'[c].pc = "rejected" /\ calls'[c].error = "Error"
                /\ calls'[c].execs = <<>>
                /\ UNCHANGED <<worldVars, watchVars>>]_vars

\* a delete of a staged path has failed while a writeFile stood at an await,
\* with the index and the registered watcher as before
C14_Witness ==
    \E c, k \in CallIds :
        /\ Done(c, "delete") /\ calls[c].pc = "rejected" /\ calls[c].error = "Error"
        /\ LocalPathOf[calls[c].uri].ok
        /\ calls[k].op = "writeFile" /\ ~Finished(k)
        /\ index = ProviderStaged /\ registry[RootR] = 1

\* the git commands writeFile runs when all of them succeed
WriteCommands == <<"hash-object", "ls-files", "rev-parse", "update-index">>

\* C18: a call of stat, readDirectory, readFile or writeFile runs no git
\* command twice; when one fails the call rejects with that failure in the
\* same step and runs no command after it; a writeFile that fails leaves the
\* index as it was, the index changing only as the last of writeFile's
\* commands, after the others succeeded
C18_FailedCommandEndsCall ==
    [][\A c \in CallIds :
          /\ \A j, k \in 1..Len(calls'[c].execs) :
                calls'[c].execs[j] = calls'[c].execs[k] => j = k
          /\ (Finished(c) /\ calls'[c] # calls[c]) => calls'[c].execs = <<>>
          /\ (calls'[c].pc = "rejected" /\ calls'[c].error = "ExecError" /\ ~Finished(c))
                => /\ Len(calls'[c].execs) = Len(calls[c].execs) + 1
                   /\ calls[c].op = "writeFile" => UNCHANGED <<index, indexMtime>>
          /\ (calls'[c].pc = "rejected" /\ calls'[c].op = "writeFile" /\ ~Finished(c))
                => UNCHANGED <<index, indexMtime>>
          /\ (calls'[c].execs # calls[c].execs /\ index' # index)
                => calls'[c].pc = "returned" /\ calls'[c].execs = WriteCommands]_vars

\* a writeFile has stored its blob, met a failing update-index as its fourth
\* command and rejected, with the index as it was at first
C18_Witness ==
    \E c \in CallIds :
        /\ Done(c, "writeFile") /\ calls[c].pc = "rejected"
        /\ calls[c].error = "ExecError" /\ calls[c].execs = WriteCommands
        /\ calls[c].content \in objects[RootR]
        /\ index = ProviderStaged /\ indexMtime[RootR] = IndexMtimeBefore

\* the entries whose object type a stat or a readDirectory looks at: the
\* first one staged at the path, or those staged directly in the directory
TypedEntries(c) ==
    IF calls[c].op = "readDirectory" THEN Members(ChildEntries(c))
    ELSE IF calls[c].staged = {} THEN {}
    ELSE {SortEntries(calls[c].staged)[1]}

\* C19: a stat or a readDirectory that meets an index entry whose object is
\* neither a blob nor a tree fails with the assertion's Error and returns
\* nothing
C19_UnexpectedTypeFails ==
    \A c \in CallIds :
        (/\ Finished(c) /\ Translated(c) /\ calls[c].op \in {"stat", "readDirectory"}
         /\ calls[c].seen = {} /\ calls[c].staged = StagedAt(calls[c].local_path)
         /\ \E e \in TypedEntries(c) : ObjectType(e) \notin DOMAIN TYPE_MAP)
            => calls[c].pc = "rejected" /\ calls[c].error = "Error"

\* a readDirectory of d, where the submodule m is staged as a gitlink, has
\* returned a list in which d/m has no type
C19_Witness ==
    \E c \in CallIds :
        /\ Done(c, "readDirectory") /\ calls[c].pc = "returned"
        /\ calls[c].local_path = RootR \o <<SLASH, "d">>
        /\ \E e \in TypedEntries(c) : ObjectType(e) = <<"c", "o", "m", "m", "i", "t">>
        /\ \E k \in 1..Len(calls[c].listing) :
              calls[c].listing[k] = [name |-> <<"d", SLASH, "m">>, type |-> "undefined"]

\* the first of the entries staged at the call's path, in the order the
\* index reports them
FirstEntry(c) == SortEntries(EntriesOfPath(c))[1]

\* C20: with more than one entry staged at the path (a merge that stopped on
\* it), stat and readFile log a warning and succeed with the first entry:
\* stat with its type and the size of its blob, readFile with its blob
C20_FirstOfManyEntries ==
    \A c \in CallIds :
        (/\ Finished(c) /\ Translated(c) /\ calls[c].op \in {"stat", "readFile"}
         /\ calls[c].seen = {} /\ Cardinality(EntriesOfPath(c)) > 1)
            => /\ calls[c].warned
               /\ calls[c].pc = "returned"
               /\ calls[c].op = "stat" => StagedStat(c, FirstEntry(c))
               /\ calls[c].op = "readFile" => ObjectName(calls[c].bytes) = FirstEntry(c).oid

\* a stat of g, which has two entries and no file in the working tree, has
\* logged the warning, got the size of the first entry's blob and then failed
\* with ENOENT
C20_Witness ==
    \E c \in CallIds :
        /\ Done(c, "stat") /\ calls[c].seen = {}
        /\ Cardinality(EntriesOfPath(c)) = 2 /\ ~fsStat(calls[c].local_path).ok
        /\ calls[c].warned /\ calls[c].object_id = FirstEntry(c).oid
        /\ calls[c].pc = "rejected" /\ calls[c].error = "ENOENT"

----------------------------------------------------------------------------
(* Claims about the watcher's loop and its listener handles (SpecWatch) *)

C22_HandleRemovesItsListener ==
    [][\A i \in SubIds :
          subs'[i].disposals = subs[i].disposals + 1 =>
             IF subs[i].disposals = 0
             THEN /\ PlaceIn(watchers'[subs[i].listener].listeners, i) = 0
                  /\ \A w \in SubIds :
                        watchers'[w].listeners =
                           SelectSeq(watchers[w].listeners, LAMBDA j : j # i)
             ELSE \A w \in SubIds :
                     /\ watchers'[w].listeners = watchers[w].listeners
                     /\ hasListener(watchers'[w].listeners) =
                           hasListener(watchers[w].listeners)]_vars

\* a watcher was given three listeners; the handle of the second was
\* disposed twice, and the first and the third are in the set, in their order
C22_Witness ==
    \E w \in SubIds :
        /\ subs[1].listener = w /\ subs[2].listener = w /\ subs[3].listener = w
        /\ subs[2].disposals = 2 /\ subs[1].disposals = 0 /\ subs[3].disposals = 0
        /\ watchers[w].listeners = <<1, 3>>

----------------------------------------------------------------------------
(* Claims about what the provider's methods change (SpecProvider) *)

\* C23: the entries of the index, the index file and the object stores change
\* only in a step of a writeFile call; no step of watch or of the disposal of
\* a watch, of stat, readDirectory or readFile, and no createDirectory,
\* delete, rename or copy changes any of them, whatever the URI
C23_OnlyWriteFileStages ==
    [][(index' # index \/ indexMtime' # indexMtime \/ objects' # objects) =>
          \E c \in CallIds :
              /\ calls[c].op = "writeFile" /\ ~Finished(c)
              /\ calls'[c].op = "writeFile" /\ calls'[c].pc # calls[c].pc]_vars

\* every other method was called on a path that is staged, a watch was
\* disposed with its watcher, and the index and the object stores are as they
\* were at the start
C23_Witness ==
    /\ index = ProviderStaged
    /\ objects = [r \in Repos |-> IF r = RootR THEN {<<>>, <<"\n">>, <<"x">>} ELSE {}]
    /\ subs[1].disposed /\ watchers[1].aborted
    /\ \E c, k \in CallIds :
          /\ calls[c].op = "readFile" /\ calls[c].pc = "returned"
          /\ calls[k].op = "delete" /\ LocalPathOf[calls[k].uri].ok
          /\ StagedAt(LocalPathOf[calls[k].uri].value) # {}

----------------------------------------------------------------------------
(* Claims about the registration of watch calls (SpecRegister, SpecWatch) *)

\* the watch call has exactly one listener, in the set of the watcher that
\* the registry holds for the repository of its local path
RegisteredOnce(i) ==
    LET root == Toplevel(subs[i].local_path)
    IN /\ subs[i].called
       /\ registry[root] # 0
       /\ Cardinality({k \in 1..Len(watchers[registry[root]].listeners) :
                          watchers[registry[root]].listeners[k] = i}) = 1
       /\ \A w \in SubIds \ {registry[root]} : PlaceIn(watchers[w].listeners, i) = 0

\* C24: every watch call on a virtual URI whose local path lies in a
\* repository comes to have exactly one listener on the watcher registered for
\* that repository, unless it is disposed, whether or not the working tree
\* has a file at the path
C24_WatchEndsRegistered ==
    \A i \in SubIds :
        (subs[i].called /\ \E r \in Repos : IsUnder(subs[i].local_path, r))
            ~> (subs[i].disposed \/ RegisteredOnce(i))

\* a watch call on c, which is staged and has no file in the working tree:
\* its root resolution was rejected by fs.stat, it is not disposed and no
\* watcher has a listener of it
C24_Witness ==
    \E i \in SubIds :
        /\ subs[i].called /\ ~subs[i].disposed
        /\ StagedAt(subs[i].local_path) # {} /\ ~fsStat(subs[i].local_path).ok
        /\ subs[i].resolution = "rejected"
        /\ \A w \in SubIds : PlaceIn(watchers[w].listeners, i) = 0

\* C25: a fan-out never fires for a watch call whose disposable was disposed
\* before the watcher took the event, whatever was notified, resolved or
\* called since; the calls registered with the watcher at that time, on the
\* same URI or another, get their event unless a handler of this fan-out
\* takes their listener out first
C25_NoEventAfterDispose ==
    [][\A w \in SubIds :
          (/\ notes'[w] = notes[w] - 1
           /\ watchers[w].loop = "running" /\ watchers'[w].loop = "running")
             => /\ \A i \in SubIds :
                      subs[i].disposed =>
                         \A k \in 1..Len(fanout'.fired) : fanout'.fired[k].sub # i
                /\ \A j \in {x \in SubIds : ~subs[x].disposed /\ subs[x].listener = w}
                             \ PassedOver' :
                      \E k \in 1..Len(fanout'.fired) :
                         fanout'.fired[k] = [sub |-> j, type |-> "Changed",
                                             uri |-> subs[j].uri]]_vars

\* two watch calls on one URI were registered with one watcher; one was
\* disposed, and the event the watcher took after that fired for the other
\* one only
C25_Witness ==
    \E i, j \in SubIds :
        /\ i # j /\ subs[i].uri = subs[j].uri
        /\ subs[i].disposed /\ subs[i].listener # 0 /\ subs[i].listener = subs[j].listener
        /\ ~subs[j].disposed
        /\ fanout.happened /\ fanout.received = <<j>> /\ fanout.disposed = 0
        /\ Len(fanout.fired) = 1 /\ fanout.fired[1].sub = j

\* C26: whenever the disposable of a watch call whose root is resolved is
\* disposed, the registry holds a watcher for that root, so the lookup in the
\* callback never yields undefined: as long as the call is not disposed the
\* watcher of its root has its listener and stays in the registry
C26_DisposeFindsWatcher ==
    \A i \in SubIds :
        /\ ~subs[i].threw
        /\ (subs[i].called /\ ~subs[i].disposed /\ subs[i].git_root # <<>>)
              => /\ registry[subs[i].git_root] # 0
                 /\ watchers[registry[subs[i].git_root]].exists
                 /\ PlaceIn(watchers[registry[subs[i].git_root]].listeners, i) # 0

\* a watch call with its root resolved was disposed while another call of the
\* root stayed (the watcher stayed in the registry), then that one was
\* disposed too and took the watcher out, and both callbacks found the watcher
C26_Witness ==
    \E i, j \in SubIds :
        /\ i # j
        /\ subs[i].disposed /\ subs[i].git_root = RootR /\ subs[i].listener # 0
        /\ subs[j].disposed /\ subs[j].git_root = RootR
        /\ subs[j].listener = subs[i].listener
        /\ ~subs[i].threw /\ ~subs[j].threw
        /\ registry[RootR] = 0 /\ watchers[subs[i].listener].aborted

\* C27: every watcher that the registry holds has its loop running, so a
\* watch call registered with the watcher of its root is never left with a
\* watcher that delivers no events
C27_RegisteredLoopRuns ==
    \A root \in Repos :
        registry[root] # 0 => watchers[registry[root]].loop = "running"

\* the watch on the index file of the first repository failed and the loop
\* ended by rethrowing; the watcher is still the one registered for the root,
\* the listener of the call that made it, which has had an event, is still
\* in its set, and so is the listener of a second watch call on the root
C27_Witness ==
    \E i, j \in SubIds :
        /\ i < j
        /\ registry[RootR] = i /\ watchers[i].loop = "threw" /\ ~watchers[i].aborted
        /\ i \in ResolvedLive(RootR) /\ j \in ResolvedLive(RootR)
        /\ watchers[i].listeners = <<i, j>>
        /\ fanout.happened /\ fanout.received = <<i>>

----------------------------------------------------------------------------
(* Claims about the options of writeFile (SpecWrite) *)

\* C28: a writeFile call ends as its URI, its bytes and the state it began in
\* decide, whatever create and overwrite are: it returns or rejects with the
\* same error, and leaves the same index and the same object store, as
\* writeFile run on that state without regard to the options
C28_OptionsDoNotMatter ==
    \A c \in CallIds :
        (Done(c, "writeFile") /\ Translated(c)) =>
            /\ (calls[c].pc = "returned") = calls[c].alone.ok
            /\ calls[c].error = calls[c].alone.error
            /\ index = calls[c].alone.index
            /\ (\E r \in Repos : IsUnder(Cwd(c), r))
                  => objects[Toplevel(Cwd(c))] = calls[c].alone.stored

\* a writeFile with create = false and overwrite = false on b, which had no
\* entry, has returned and the index has an entry for b with the bytes' name
C28_Witness ==
    \E c \in CallIds :
        /\ Done(c, "writeFile") /\ calls[c].pc = "returned"
        /\ calls[c].options = [create |-> FALSE, overwrite |-> FALSE]
        /\ calls[c].staged = {}
        /\ \E e \in index : /\ e.root \o <<SLASH>> \o e.path = calls[c].local_path
                              /\ e.oid = ObjectName(calls[c].content)

============================================================================
